---------------------------- MODULE Spec2Model ----------------------------
(***************************************************************************)
(* Hybrid cryptographic system: Hill cipher, S-DES and LSB steganography.  *)
(* Model of src/script.js (first variant) and src/unnamed/part_000         *)
(* (second variant).                                                       *)
(*                                                                         *)
(* A JavaScript string is a sequence of character codes, so a "binary      *)
(* string" such as '0110' is <<48, 49, 49, 48>> ('0' = 48, '1' = 49).      *)
(* A thrown Error is a record [ok |-> FALSE, err |-> <kind>]; a returned   *)
(* value is [ok |-> TRUE, ...].                                            *)
(***************************************************************************)
EXTENDS Integers, Sequences, FiniteSets, TLC

VARIABLES
    \* ---- S-DES block cipher runs (class SDES)
    spc,        \* position of the S-DES run: "start", "keyed", "enc", "dec"
    sKey,       \* the key string handed to generateSubKeys
    sSubKeys,   \* result of generateSubKeys
    sBlock,     \* the block handed to encryptBlock
    sCipher,    \* result of encryptBlock
    sPlain,     \* result of decryptBlock
    \* ---- S-DES on texts and block lists, and the bit/text conversions
    epc,        \* position of the run: "start", "keyed", "encrypted", "decrypted", ...
    eKey,       \* the key handed to generateSubKeys, SDES.encrypt and SDES.decrypt
    eSubKeys,   \* result of generateSubKeys(eKey)
    eInput,     \* the text, block, block list or bit string handed to the operation
    eEnc,       \* result of SDES.encrypt or encryptBlock
    eDec,       \* result of SDES.decrypt, decryptBlock or binaryToText
    \* ---- Hill cipher runs (class HillCipher)
    hpc,        \* position of the Hill run: "start", "enc", "dec"
    hText,      \* the text handed to encrypt or decrypt
    hMatrix,    \* the key matrix handed to encrypt or decrypt
    hLength,    \* the originalLength handed to decrypt (NoLength: not supplied)
    hValid,     \* result of validateMatrix2x2(hMatrix)
    hEnc,       \* result of HillCipher.encrypt
    hDec,       \* result of HillCipher.decrypt
    \* ---- steganography runs (class LSBSteganography)
    gpc,        \* position of the run: "start", "hidden", "hidden2", "extracted", "probed"
    gCarrier,   \* the image handed to hideMessage or extractMessage
    gMessage,   \* the message handed to hideMessage
    gHide,      \* result of hideMessage
    gExtract,   \* result of extractMessage
    \* ---- the shared LSBSteganography instance of the second variant
    canvas,     \* this.canvas: its size and what has been painted on it
    calls,      \* the hideMessage and extractMessage calls made so far, in call order
    running,    \* the call whose continuation is the queued microtask (0: none)
    \* ---- the page of the second variant
    second,     \* its globals (currentStep, hillResult, sdesResult, ...) and what it shows
    \* ---- the page of script.js: its global state
    currentStep,
    hillCipherResult,
    sdesResult,
    steganographyResult,
    originalImageData,
    \* ---- the page of script.js: promises not yet settled, and what it shows
    pendingHide,      \* hideMessage calls of hideInImage waiting for the image decode
    pendingExtract,   \* extractMessage calls of startDecryption waiting for the decode
    decryptOutput,    \* what displayDecryptionResult last showed
    notification,     \* what showNotification last showed
    \* ---- history of the page, kept to state properties
    history

sdesVars == <<spc, sKey, sSubKeys, sBlock, sCipher, sPlain>>
hillVars == <<hpc, hText, hMatrix, hLength, hValid, hEnc, hDec>>

textVars == <<epc, eKey, eSubKeys, eInput, eEnc, eDec>>

stegoVars == <<gpc, gCarrier, gMessage, gHide, gExtract>>

sharedVars == <<canvas, calls, running>>

secondVars == <<second>>

globalVars == <<currentStep, hillCipherResult, sdesResult, steganographyResult,
                originalImageData>>
pageVars == <<globalVars, pendingHide, pendingExtract, decryptOutput, notification, history>>

vars == <<sdesVars, textVars, hillVars, stegoVars, sharedVars, secondVars, pageVars>>

\* the variables an operation of one class leaves alone
notSdes == <<textVars, hillVars, stegoVars, sharedVars, secondVars, pageVars>>
notText == <<sdesVars, hillVars, stegoVars, sharedVars, secondVars, pageVars>>
notHill == <<sdesVars, textVars, stegoVars, sharedVars, secondVars, pageVars>>
notStego == <<sdesVars, textVars, hillVars, sharedVars, secondVars, pageVars>>
notShared == <<sdesVars, textVars, hillVars, stegoVars, secondVars, pageVars>>
notSecond == <<sdesVars, textVars, hillVars, stegoVars, sharedVars, pageVars>>
notPage == <<sdesVars, textVars, hillVars, stegoVars, sharedVars, secondVars>>

-----------------------------------------------------------------------------
(* Characters and strings *)

Ch0 == 48
Ch1 == 49
ChA == 65
ChX == 88

NoStr == <<>>

Err(kind) == [ok |-> FALSE, err |-> kind]

RECURSIVE Concat(_)
\* Array.prototype.join('') of a sequence of strings
Concat(ss) ==
    IF ss = <<>> THEN <<>>
    ELSE IF Len(ss) = 1 THEN ss[1]
    ELSE LET half == Len(ss) \div 2
         IN  Concat(SubSeq(ss, 1, half)) \o Concat(SubSeq(ss, half + 1, Len(ss)))

\* String.prototype.slice(from) / slice(from, to) with 0-based JS indices
Slice(s, from, to) ==
    LET t == IF to > Len(s) THEN Len(s) ELSE to
    IN  IF from >= t THEN <<>> ELSE SubSeq(s, from + 1, t)

\* the strings of '0'/'1' characters of length n
BinStrings(n) == [1..n -> {Ch0, Ch1}]

\* parseInt of a single '0'/'1' character; NaN (anything else) acts as 0 under ^ and |
ParseBit(c) == IF c = Ch1 THEN 1 ELSE 0

\* Number.prototype.toString() of a bit value
BitChar(b) == IF b = 1 THEN Ch1 ELSE Ch0

RECURSIVE ToString2(_)
\* Number.prototype.toString(2) of a non-negative integer
ToString2(n) == IF n < 2 THEN <<BitChar(n)>> ELSE ToString2(n \div 2) \o <<BitChar(n % 2)>>

\* String.prototype.padStart(w, '0')
PadStart(s, w) == IF Len(s) >= w THEN s ELSE [i \in 1..(w - Len(s)) |-> Ch0] \o s

\* String.prototype.padEnd(w, '0')
PadEnd(s, w) == IF Len(s) >= w THEN s ELSE s \o [i \in 1..(w - Len(s)) |-> Ch0]

RECURSIVE ParseInt2Acc(_, _)
ParseInt2Acc(s, acc) ==
    IF s = <<>> \/ Head(s) \notin {Ch0, Ch1} THEN acc
    ELSE ParseInt2Acc(Tail(s), 2 * acc + ParseBit(Head(s)))

\* parseInt(s, 2): the leading binary digits of s (NaN, which fromCharCode and the
\* bit operators read as 0, when there is none)
ParseInt2(s) == ParseInt2Acc(s, 0)

-----------------------------------------------------------------------------
(* class SDES *)

P10 == <<3, 5, 2, 7, 4, 10, 1, 9, 8, 6>>
P8 == <<6, 3, 7, 4, 8, 5, 10, 9>>
IP == <<2, 6, 3, 1, 4, 8, 5, 7>>
IP_INV == <<4, 1, 3, 5, 7, 2, 8, 6>>
EP == <<4, 1, 2, 3, 2, 3, 4, 1>>
P4 == <<2, 4, 3, 1>>

S0 == << <<1, 0, 3, 2>>, <<3, 2, 1, 0>>, <<0, 2, 1, 3>>, <<3, 1, 3, 2>> >>
S1 == << <<0, 1, 2, 3>>, <<2, 0, 1, 3>>, <<3, 0, 1, 0>>, <<2, 1, 0, 3>> >>

\* table.map(pos => input[pos - 1]).join(''): a position past the end of the
\* input is undefined and joins as the empty string
permute(input, table) ==
    IF \A i \in 1..Len(table) : table[i] <= Len(input)
    THEN [i \in 1..Len(table) |-> input[table[i]]]
    ELSE Concat([i \in 1..Len(table) |->
                   IF table[i] <= Len(input) THEN <<input[table[i]]>> ELSE <<>>])

leftShift(bits, shifts) == Slice(bits, shifts, Len(bits)) \o Slice(bits, 0, shifts)

\* a.split('').map((bit, i) => (parseInt(bit) ^ parseInt(b[i])).toString()).join('')
XorBits(a, b) ==
    [i \in 1..Len(a) |->
        LET x == ParseBit(a[i])
            y == IF i <= Len(b) THEN ParseBit(b[i]) ELSE 0
        IN  BitChar(IF x = y THEN 0 ELSE 1)]

\* generateSubKeys with K2 taken from the unrotated halves shifted by 2
generateSubKeys_K2FromOriginal(key) ==
    IF Len(key) # 10 THEN Err("InvalidKey")
    ELSE LET p10Result == permute(key, P10)
             left1 == Slice(p10Result, 0, 5)
             right1 == Slice(p10Result, 5, Len(p10Result))
             left1Shifted == leftShift(left1, 1)
             right1Shifted == leftShift(right1, 1)
             left2Shifted == leftShift(left1, 2)
             right2Shifted == leftShift(right1, 2)
         IN  [ok |-> TRUE,
              k1 |-> permute(left1Shifted \o right1Shifted, P8),
              k2 |-> permute(left2Shifted \o right2Shifted, P8)]

generateSubKeys(key) ==
    IF Len(key) # 10 THEN Err("InvalidKey")
    ELSE LET p10Result == permute(key, P10)
             left1 == Slice(p10Result, 0, 5)
             right1 == Slice(p10Result, 5, Len(p10Result))
             left1Shifted == leftShift(left1, 1)
             right1Shifted == leftShift(right1, 1)
             left2Shifted == leftShift(left1Shifted, 2)
             right2Shifted == leftShift(right1Shifted, 2)
         IN  [ok |-> TRUE,
              k1 |-> permute(left1Shifted \o right1Shifted, P8),
              k2 |-> permute(left2Shifted \o right2Shifted, P8)]

sBoxLookup(input, sBox) ==
    LET row == ParseInt2(<<input[1], input[4]>>)
        col == ParseInt2(<<input[2], input[3]>>)
    IN  PadStart(ToString2(sBox[row + 1][col + 1]), 2)

fFunction(right, subKey) ==
    LET expanded == permute(right, EP)
        xored == XorBits(expanded, subKey)
        left4 == Slice(xored, 0, 4)
        right4 == Slice(xored, 4, Len(xored))
        s0Result == sBoxLookup(left4, S0)
        s1Result == sBoxLookup(right4, S1)
    IN  permute(s0Result \o s1Result, P4)

\* encryptBlock with the halves swapped after the second round as well
encryptBlock_SwapLastRound(block, k1, k2) ==
    IF Len(block) # 8 THEN Err("InvalidBlock")
    ELSE LET ipResult == permute(block, IP)
             left == Slice(ipResult, 0, 4)
             right == Slice(ipResult, 4, Len(ipResult))
             fResult1 == fFunction(right, k1)
             newLeft == right
             newRight == XorBits(left, fResult1)
             fResult2 == fFunction(newRight, k2)
             finalLeft == XorBits(newLeft, fResult2)
             finalRight == newRight
         IN  [ok |-> TRUE, block |-> permute(finalRight \o finalLeft, IP_INV)]

\* encryptBlock refusing only the blocks longer than 8
encryptBlock_TooLongOnly(block, k1, k2) ==
    IF Len(block) > 8 THEN Err("InvalidBlock")
    ELSE LET ipResult == permute(block, IP)
             left == Slice(ipResult, 0, 4)
             right == Slice(ipResult, 4, Len(ipResult))
             fResult1 == fFunction(right, k1)
             newLeft == right
             newRight == XorBits(left, fResult1)
             fResult2 == fFunction(newRight, k2)
             finalLeft == XorBits(newLeft, fResult2)
             finalRight == newRight
         IN  [ok |-> TRUE, block |-> permute(finalLeft \o finalRight, IP_INV)]

encryptBlock(block, k1, k2) ==
    IF Len(block) # 8 THEN Err("InvalidBlock")
    ELSE LET ipResult == permute(block, IP)
             left == Slice(ipResult, 0, 4)
             right == Slice(ipResult, 4, Len(ipResult))
             fResult1 == fFunction(right, k1)
             newLeft == right
             newRight == XorBits(left, fResult1)
             fResult2 == fFunction(newRight, k2)
             finalLeft == XorBits(newLeft, fResult2)
             finalRight == newRight
         IN  [ok |-> TRUE, block |-> permute(finalLeft \o finalRight, IP_INV)]

decryptBlock(block, k1, k2) == encryptBlock(block, k2, k1)

-----------------------------------------------------------------------------
(* Text and binary conversion (script.js 14-40) *)

\* char.charCodeAt(0).toString(2).padStart(8, '0')
CharTo8Bits(c) == PadStart(ToString2(c), 8)

textToBinary(text) == Concat([i \in 1..Len(text) |-> CharTo8Bits(text[i])])

RECURSIVE Chunks8(_)
\* binary.match(/.{1,8}/g) || []
Chunks8(binary) ==
    IF binary = <<>> THEN <<>>
    ELSE <<Slice(binary, 0, 8)>> \o Chunks8(Slice(binary, 8, Len(binary)))

\* String.fromCharCode(parseInt(chunk, 2)) for every chunk
binaryToText(binary) ==
    LET chunks == Chunks8(binary)
    IN  [i \in 1..Len(chunks) |-> ParseInt2(chunks[i])]

\* binary.slice(i, i + 8).padEnd(8, '0') for i = 0, 8, ...
stringTo8BitBlocks(text) ==
    LET chunks == Chunks8(textToBinary(text))
    IN  [i \in 1..Len(chunks) |-> PadEnd(chunks[i], 8)]

blocksToString(blocks) == binaryToText(Concat(blocks))

-----------------------------------------------------------------------------
(* Modular arithmetic (script.js 43-78) *)

ALPHABET_SIZE == 26

\* the JavaScript remainder n % m, which takes the sign of n (m > 0)
JsRem(n, m) == IF n >= 0 THEN n % m ELSE 0 - ((0 - n) % m)

\* mod without the "+ m" wrap: a negative n stays negative
mod_NoWrap(n, m) == JsRem(n, m)

mod(n, m) == JsRem(JsRem(n, m) + m, m)

modInverse(a, m) ==
    LET found == {i \in 1..(m - 1) : JsRem(a * i, m) = 1}
    IN  IF found = {} THEN Err("NoInverse")
        ELSE [ok |-> TRUE, val |-> CHOOSE i \in found : \A j \in found : i <= j]

matrixDeterminant2x2(matrix) ==
    matrix[1][1] * matrix[2][2] - matrix[1][2] * matrix[2][1]

\* matrixInverse2x2 without the change of sign of the off-diagonal entries
matrixInverse2x2_NoSignChange(matrix, modulus) ==
    LET det == matrixDeterminant2x2(matrix)
        inv == modInverse(mod(det, modulus), modulus)
    IN  IF ~inv.ok THEN inv
        ELSE [ok |-> TRUE,
              val |-> << <<mod(matrix[2][2] * inv.val, modulus),
                           mod(matrix[1][2] * inv.val, modulus)>>,
                         <<mod(matrix[2][1] * inv.val, modulus),
                           mod(matrix[1][1] * inv.val, modulus)>> >>]

matrixInverse2x2(matrix, modulus) ==
    LET det == matrixDeterminant2x2(matrix)
        inv == modInverse(mod(det, modulus), modulus)
    IN  IF ~inv.ok THEN inv
        ELSE [ok |-> TRUE,
              val |-> << <<mod(matrix[2][2] * inv.val, modulus),
                           mod((0 - matrix[1][2]) * inv.val, modulus)>>,
                         <<mod((0 - matrix[2][1]) * inv.val, modulus),
                           mod(matrix[1][1] * inv.val, modulus)>> >>]

validateMatrix2x2(matrix, modulus) ==
    modInverse(mod(matrixDeterminant2x2(matrix), modulus), modulus).ok

-----------------------------------------------------------------------------
(* class HillCipher *)

IsLetter(c) == (c >= 65 /\ c <= 90) \/ (c >= 97 /\ c <= 122)

\* String.prototype.toUpperCase on the ASCII characters the model uses
ToUpper(c) == IF c >= 97 /\ c <= 122 THEN c - 32 ELSE c

\* text.replace(/[^A-Za-z]/g, '').toUpperCase()
LettersUpper(text) ==
    LET kept == SelectSeq(text, IsLetter)
    IN  [i \in 1..Len(kept) |-> ToUpper(kept[i])]

charToNum(char) == ToUpper(char) - ChA

numToChar(num) == mod(num, ALPHABET_SIZE) + ChA

preprocessText(text) ==
    LET processed == LettersUpper(text)
    IN  IF Len(processed) % 2 # 0 THEN processed \o <<ChX>> ELSE processed

textToBinaryBlocks(text) == [i \in 1..Len(text) |-> CharTo8Bits(text[i])]

\* the loop "for (i = 0; i < text.length; i += 2)" of encrypt and decrypt: each
\* pair of characters multiplied by the matrix m
HillPairs(text, m) ==
    Concat([k \in 1..(Len(text) \div 2) |->
        LET char1 == charToNum(text[2 * k - 1])
            char2 == charToNum(text[2 * k])
        IN  <<numToChar(mod(m[1][1] * char1 + m[1][2] * char2, ALPHABET_SIZE)),
              numToChar(mod(m[2][1] * char1 + m[2][2] * char2, ALPHABET_SIZE))>>])

HillEncryptFn(plainText, keyMatrix) ==
    IF ~validateMatrix2x2(keyMatrix, ALPHABET_SIZE) THEN Err("InvalidKeyMatrix")
    ELSE LET originalText == LettersUpper(plainText)
             processedText == preprocessText(plainText)
             encryptedText == HillPairs(processedText, keyMatrix)
         IN  [ok |-> TRUE,
              plainText |-> processedText,
              originalText |-> originalText,
              originalLength |-> Len(originalText),
              encryptedText |-> encryptedText,
              keyMatrix |-> keyMatrix,
              binaryBlocks |-> textToBinaryBlocks(encryptedText)]

\* originalLength = null, the default of HillCipher.decrypt
NoLength == -1

\* HillDecryptFn without the removal of the pad letter
HillDecryptFn_KeepPad(encryptedText, keyMatrix, originalLength) ==
    IF ~validateMatrix2x2(keyMatrix, ALPHABET_SIZE) THEN Err("InvalidKeyMatrix")
    ELSE IF Len(encryptedText) % 2 # 0 THEN Err("TypeError")
    ELSE [ok |-> TRUE,
          text |-> HillPairs(encryptedText, matrixInverse2x2(keyMatrix, ALPHABET_SIZE).val)]

\* HillDecryptFn removing a trailing 'X' by pattern instead of cutting at
\* originalLength
HillDecryptFn_StripsTrailingX(encryptedText, keyMatrix, originalLength) ==
    IF ~validateMatrix2x2(keyMatrix, ALPHABET_SIZE) THEN Err("InvalidKeyMatrix")
    ELSE IF Len(encryptedText) % 2 # 0 THEN Err("TypeError")
    ELSE LET inverseMatrix == matrixInverse2x2(keyMatrix, ALPHABET_SIZE).val
             decryptedText == HillPairs(encryptedText, inverseMatrix)
         IN  [ok |-> TRUE,
              text |-> IF decryptedText # <<>> /\ decryptedText[Len(decryptedText)] = ChX
                       THEN Slice(decryptedText, 0, Len(decryptedText) - 1)
                       ELSE decryptedText]

\* HillCipher.decrypt of script.js. On a text of odd length the last pair reads
\* encryptedText[i + 1] = undefined and charToNum throws a TypeError.
HillDecryptFn(encryptedText, keyMatrix, originalLength) ==
    IF ~validateMatrix2x2(keyMatrix, ALPHABET_SIZE) THEN Err("InvalidKeyMatrix")
    ELSE IF Len(encryptedText) % 2 # 0 THEN Err("TypeError")
    ELSE LET inverseMatrix == matrixInverse2x2(keyMatrix, ALPHABET_SIZE).val
             decryptedText == HillPairs(encryptedText, inverseMatrix)
         IN  [ok |-> TRUE,
              text |-> IF /\ originalLength # NoLength
                          /\ originalLength > 0
                          /\ originalLength < Len(decryptedText)
                       THEN Slice(decryptedText, 0, originalLength)
                       ELSE decryptedText]

\* HillCipher.encrypt of the second variant: no original text or length
HillEncryptV2Fn(plainText, keyMatrix) ==
    IF ~validateMatrix2x2(keyMatrix, ALPHABET_SIZE) THEN Err("InvalidKeyMatrix")
    ELSE LET processedText == preprocessText(plainText)
             encryptedText == HillPairs(processedText, keyMatrix)
         IN  [ok |-> TRUE,
              plainText |-> processedText,
              encryptedText |-> encryptedText,
              keyMatrix |-> keyMatrix,
              binaryBlocks |-> textToBinaryBlocks(encryptedText)]

\* HillCipher.decrypt of the second variant: it takes no original length and
\* returns every decoded letter
HillDecryptV2Fn(encryptedText, keyMatrix) ==
    IF ~validateMatrix2x2(keyMatrix, ALPHABET_SIZE) THEN Err("InvalidKeyMatrix")
    ELSE IF Len(encryptedText) % 2 # 0 THEN Err("TypeError")
    ELSE [ok |-> TRUE,
          text |-> HillPairs(encryptedText, matrixInverse2x2(keyMatrix, ALPHABET_SIZE).val)]

\* SdesEncryptFn with every block after the first combined with the first
\* block before it is encrypted
SdesEncryptFn_MixesFirstBlock(text, key) ==
    LET blocks == stringTo8BitBlocks(text)
        subKeys == generateSubKeys(key)
    IN  IF ~subKeys.ok THEN subKeys
        ELSE LET encryptedBlocks ==
                     [i \in 1..Len(blocks) |->
                         encryptBlock(IF i = 1 THEN blocks[i] ELSE XorBits(blocks[i], blocks[1]),
                                      subKeys.k1, subKeys.k2)]
             IN  IF \E i \in 1..Len(blocks) : ~encryptedBlocks[i].ok
                 THEN Err("InvalidBlock")
                 ELSE [ok |-> TRUE,
                       input |-> blocks,
                       output |-> [i \in 1..Len(blocks) |-> encryptedBlocks[i].block],
                       key |-> key,
                       subKeys |-> [k1 |-> subKeys.k1, k2 |-> subKeys.k2]]

\* SDES.encrypt
SdesEncryptFn(text, key) ==
    LET blocks == stringTo8BitBlocks(text)
        subKeys == generateSubKeys(key)
    IN  IF ~subKeys.ok THEN subKeys
        ELSE LET encryptedBlocks ==
                     [i \in 1..Len(blocks) |-> encryptBlock(blocks[i], subKeys.k1, subKeys.k2)]
             IN  IF \E i \in 1..Len(blocks) : ~encryptedBlocks[i].ok
                 THEN Err("InvalidBlock")
                 ELSE [ok |-> TRUE,
                       input |-> blocks,
                       output |-> [i \in 1..Len(blocks) |-> encryptedBlocks[i].block],
                       key |-> key,
                       subKeys |-> [k1 |-> subKeys.k1, k2 |-> subKeys.k2]]

\* SDES.decrypt
SdesDecryptFn(blocks, key) ==
    LET subKeys == generateSubKeys(key)
    IN  IF ~subKeys.ok THEN subKeys
        ELSE LET decryptedBlocks ==
                     [i \in 1..Len(blocks) |-> decryptBlock(blocks[i], subKeys.k1, subKeys.k2)]
             IN  IF \E i \in 1..Len(blocks) : ~decryptedBlocks[i].ok
                 THEN Err("InvalidBlock")
                 ELSE [ok |-> TRUE,
                       text |-> blocksToString(
                                    [i \in 1..Len(blocks) |-> decryptedBlocks[i].block])]

-----------------------------------------------------------------------------
(* class LSBSteganography *)

\* An encoded image (a data URL) is the picture it decodes to: PNG is lossless,
\* so toDataURL followed by a decode gives back the pixel bytes. An image that
\* cannot be decoded (img.onerror) has ok = FALSE.
Image(w, h, bytes) == [ok |-> TRUE, width |-> w, height |-> h, data |-> bytes]

BrokenImage == [ok |-> FALSE, err |-> "ImageDecodeFailure"]

\* a delimiter that is the character codes of "01": 0011000000110001
DELIMITER_CodesOfZeroOne ==
    <<Ch0, Ch0, Ch1, Ch1, Ch0, Ch0, Ch0, Ch0, Ch0, Ch0, Ch1, Ch1, Ch0, Ch0, Ch0, Ch1>>

\* '1111111111111110'
DELIMITER == [i \in 1..16 |-> IF i = 16 THEN Ch0 ELSE Ch1]

\* the index in data (from 1) of the k-th R/G/B channel byte (k from 0) in the
\* order of the loops "for i += 4, for j < 3": data[i + j]
ChannelIndex(k) == 4 * (k \div 3) + (k % 3) + 1

\* SetLsb with the mask 0xFC: the two low bits are cleared
SetLsb_ClearTwoBits(pixelValue, messageBit) == (pixelValue - (pixelValue % 4)) + messageBit

\* (pixelValue & 0xFE) | messageBit, for a byte and a bit
SetLsb(pixelValue, messageBit) == (pixelValue - (pixelValue % 2)) + messageBit

\* the loops of hideMessage: the R, G, B bytes in pixel order take the bits of
\* fullMessage as their low bit until fullMessage is exhausted
EmbedBits(data, fullMessage) ==
    [idx \in 1..Len(data) |->
        LET i == (idx - 1) \div 4
            j == (idx - 1) % 4
            messageIndex == 3 * i + j
        IN  IF j < 3 /\ messageIndex < Len(fullMessage)
            THEN SetLsb(data[idx], ParseBit(fullMessage[messageIndex + 1]))
            ELSE data[idx]]

\* EmbedIntoClone writing into the decoded buffer itself: no copy is made
EmbedIntoClone_InPlace(data, fullMessage) ==
    [originalImageData |-> EmbedBits(data, fullMessage),
     modifiedImageData |-> EmbedBits(data, fullMessage)]

\* the two pixel buffers of hideMessage after its loops: modifiedImageData is
\* new Uint8ClampedArray(originalImageData.data), a copy, and the loops write
\* into the copy only
EmbedIntoClone(data, fullMessage) ==
    [originalImageData |-> data,
     modifiedImageData |-> EmbedBits(data, fullMessage)]

RECURSIVE SumSquares(_, _, _, _)
\* the sum over the bytes lo..hi of the squared difference of the R, G, B bytes
SumSquares(a, b, lo, hi) ==
    IF lo > hi THEN 0
    ELSE IF lo = hi
         THEN (IF (lo - 1) % 4 < 3 THEN (a[lo] - b[lo]) * (a[lo] - b[lo]) ELSE 0)
         ELSE LET mid == (lo + hi) \div 2
              IN  SumSquares(a, b, lo, mid) + SumSquares(a, b, mid + 1, hi)

\* calculatePSNR looking at the R byte of each pixel only
calculatePSNR_RedOnly(original, modified) ==
    LET same == \A idx \in 1..Len(original.data) :
                    idx % 4 = 1 => original.data[idx] = modified.data[idx]
    IN  [infinite |-> same,
         sse |-> IF same THEN 0
                 ELSE SumSquares(original.data, modified.data, 1, Len(original.data)),
         totalPixels |-> original.width * original.height]

\* calculatePSNR: mse = (sum of squared R, G, B differences) / 3 / totalPixels;
\* Infinity when mse = 0, else 20 * log10(255 / sqrt(mse)), kept as the sum
calculatePSNR(original, modified) ==
    LET sse == SumSquares(original.data, modified.data, 1, Len(original.data))
    IN  [infinite |-> sse = 0, sse |-> sse, totalPixels |-> original.width * original.height]

\* Math.floor((data.length / 4) * 3)
MaxCapacity(data) == ((Len(data) \div 4) * 3)

\* the capacity test with >= for >: an exact fit is refused
CapacityExceeded_OffByOne(fullMessage, data) == Len(fullMessage) >= MaxCapacity(data)

\* fullMessage.length > maxCapacity (script.js)
CapacityExceeded(fullMessage, data) == Len(fullMessage) > MaxCapacity(data)

\* LSBSteganography.hideMessage of script.js
HideMessageFn(imageData, message) ==
    IF ~imageData.ok THEN Err("ImageDecodeFailure")
    ELSE LET original == imageData
             messageBinary == textToBinary(message)
             fullMessage == messageBinary \o DELIMITER
             maxCapacity == MaxCapacity(original.data)
         IN  IF CapacityExceeded(fullMessage, original.data)
             THEN Err("CapacityExceeded")
             ELSE LET buffers == EmbedIntoClone(original.data, fullMessage)
                      modified == Image(original.width, original.height,
                                        buffers.modifiedImageData)
                  IN  [ok |-> TRUE,
                       originalImage |-> imageData,
                       stegoImage |-> modified,
                       message |-> message,
                       messageBinary |-> messageBinary,
                       capacity |-> maxCapacity,
                       used |-> Len(fullMessage),
                       psnr |-> calculatePSNR(Image(original.width, original.height,
                                                    buffers.originalImageData),
                                              modified),
                       imageSize |-> [width |-> original.width,
                                      height |-> original.height]]

\* binaryMessage.length > original.data.length / 4 (second variant)
CapacityExceededV2(binaryMessage, data) == Len(binaryMessage) > Len(data) \div 4

\* the number of R, G, B bytes whose value the embedding changed
PixelsModified(before, after) ==
    Cardinality({idx \in 1..Len(before) : before[idx] # after[idx]})

\* LSBSteganography.hideMessage of the second variant
HideMessageV2Fn(imageData, message) ==
    IF ~imageData.ok THEN Err("ImageDecodeFailure")
    ELSE LET original == imageData
             binaryMessage == textToBinary(message) \o DELIMITER
         IN  IF CapacityExceededV2(binaryMessage, original.data)
             THEN Err("CapacityExceeded")
             ELSE LET buffers == EmbedIntoClone(original.data, binaryMessage)
                      modified == Image(original.width, original.height,
                                        buffers.modifiedImageData)
                  IN  [ok |-> TRUE,
                       originalImageData |-> imageData,
                       stegoImageData |-> modified,
                       hiddenMessage |-> message,
                       pixelsModified |-> PixelsModified(original.data, modified.data),
                       capacityUsed |-> [bits |-> Len(binaryMessage),
                                         channels |-> MaxCapacity(original.data)],
                       psnr |-> calculatePSNR(Image(original.width, original.height,
                                                    buffers.originalImageData),
                                              modified)]

\* LsbChar reading every byte in turn, the alpha byte included
LsbChar_WithAlpha(data, k) == BitChar(data[k + 1] % 2)

\* (data[i + j] & 1).toString() of the k-th R/G/B channel byte (k from 0)
LsbChar(data, k) == BitChar(data[ChannelIndex(k)] % 2)

\* the low bits of the R, G, B bytes in the order the loops read them
ChannelBits(data) == [k \in 1..(3 * (Len(data) \div 4)) |-> LsbChar(data, k - 1)]

\* the least member of a non-empty set of numbers
Least(S) == CHOOSE n \in S : \A m \in S : n <= m

\* ExtractLoop comparing with the delimiter once per pixel, after its B channel
ExtractLoop_CheckPerPixel(data) ==
    LET read == ChannelBits(data)
        stops == {n \in Len(DELIMITER)..Len(read) :
                      n % 3 = 0 /\ SubSeq(read, n - Len(DELIMITER) + 1, n) = DELIMITER}
    IN  IF stops = {} THEN Err("DelimiterNotFound")
        ELSE [ok |-> TRUE,
              text |-> binaryToText(SubSeq(read, 1, Least(stops) - Len(DELIMITER)))]

\* the loops of extractMessage: each R, G, B low bit is appended to
\* extractedBinary and the last 16 bits are compared with the delimiter, so the
\* loops return at the first length n at which extractedBinary ends with it
ExtractLoop(data) ==
    LET read == ChannelBits(data)
        stops == {n \in Len(DELIMITER)..Len(read) :
                      SubSeq(read, n - Len(DELIMITER) + 1, n) = DELIMITER}
    IN  IF stops = {} THEN Err("DelimiterNotFound")
        ELSE [ok |-> TRUE,
              text |-> binaryToText(SubSeq(read, 1, Least(stops) - Len(DELIMITER)))]

\* LSBSteganography.extractMessage of script.js
ExtractMessageFn(imageData) ==
    IF ~imageData.ok THEN Err("ImageDecodeFailure")
    ELSE ExtractLoop(imageData.data)

\* String.prototype.endsWith
EndsWith(str, suffix) ==
    /\ Len(str) >= Len(suffix)
    /\ SubSeq(str, Len(str) - Len(suffix) + 1, Len(str)) = suffix

\* the loops of extractMessage of the second variant: they return at the first
\* length at which binaryMessage.endsWith(delimiter)
ExtractLoopV2(data) ==
    LET read == ChannelBits(data)
        stops == {n \in 1..Len(read) : EndsWith(SubSeq(read, 1, n), DELIMITER)}
    IN  IF stops = {} THEN Err("DelimiterNotFound")
        ELSE LET binaryMessage == SubSeq(read, 1, Least(stops))
             IN  [ok |-> TRUE,
                  text |-> binaryToText(Slice(binaryMessage, 0,
                                              Len(binaryMessage) - Len(DELIMITER)))]

\* LSBSteganography.extractMessage of the second variant
ExtractMessageV2Fn(stegoImageData) ==
    IF ~stegoImageData.ok THEN Err("ImageDecodeFailure")
    ELSE ExtractLoopV2(stegoImageData.data)

-----------------------------------------------------------------------------
(* The canvas of an LSBSteganography instance. What has been painted since the
   canvas was last cleared is an image at the origin; every other pixel is
   transparent black. *)

NoPicture == Image(0, 0, <<>>)

\* document.createElement('canvas'): 300 by 150, transparent black
NewCanvas == [width |-> 300, height |-> 150, painted |-> NoPicture]

\* the R, G, B, A bytes of the pixel (x, y) of an image
PixelAt(img, x, y) == SubSeq(img.data, 4 * (y * img.width + x) + 1, 4 * (y * img.width + x) + 4)

\* the pixel (x, y) of the canvas
CanvasPixel(cv, x, y) ==
    IF x < cv.painted.width /\ y < cv.painted.height /\ x < cv.width /\ y < cv.height
    THEN PixelAt(cv.painted, x, y)
    ELSE <<0, 0, 0, 0>>

\* this.canvas.width = w; this.canvas.height = h: setting the size clears the canvas
ResizeCanvas(cv, w, h) == [width |-> w, height |-> h, painted |-> NoPicture]

Min(a, b) == IF a < b THEN a ELSE b
Max(a, b) == IF a > b THEN a ELSE b

\* the canvas after the pixels of img have replaced those at the origin
PaintAtOrigin(cv, img) ==
    LET w == Min(cv.width, Max(cv.painted.width, img.width))
        h == Min(cv.height, Max(cv.painted.height, img.height))
    IN  [cv EXCEPT !.painted =
            Image(w, h, Concat([p \in 1..(w * h) |->
                LET x == (p - 1) % w
                    y == (p - 1) \div w
                IN  IF x < img.width /\ y < img.height
                    THEN PixelAt(img, x, y) ELSE CanvasPixel(cv, x, y)]))]

\* drawImage leaving the canvas as it was
DrawImage_Skipped(cv, img) == cv

\* this.ctx.drawImage(img, 0, 0), which the code calls on the canvas it has
\* just cleared
DrawImage(cv, img) == PaintAtOrigin(cv, img)

\* this.ctx.putImageData(modifiedImageData, 0, 0)
PutImageData(cv, img) == PaintAtOrigin(cv, img)

\* this.ctx.getImageData(0, 0, w, h)
GetImageData(cv, w, h) ==
    Image(w, h, Concat([p \in 1..(w * h) |-> CanvasPixel(cv, (p - 1) % w, (p - 1) \div w)]))

\* canvasToImageData: this.canvas.toDataURL('image/png')
canvasToImageData(cv) == GetImageData(cv, cv.width, cv.height)

\* img.onload of imageDataToCanvas on the shared canvas: the canvas takes the
\* size of the image, the image is drawn and the pixels are read back
imageDataToCanvas(cv, img) ==
    LET drawn == DrawImage(ResizeCanvas(cv, img.width, img.height), img)
    IN  [canvas |-> drawn, resolved |-> GetImageData(drawn, img.width, img.height)]

\* hideMessage of the second variant from the await on, on the shared canvas:
\* the embedding of HideMessageV2Fn, then putImageData and canvasToImageData
hideMessageV2Resumed(cv, resolved, imageData, message) ==
    LET result == HideMessageV2Fn(resolved, message)
    IN  IF ~result.ok THEN [canvas |-> cv, result |-> result]
        ELSE LET put == PutImageData(cv, result.stegoImageData)
             IN  [canvas |-> put,
                  result |-> [result EXCEPT !.originalImageData = imageData,
                                            !.stegoImageData = canvasToImageData(put)]]

-----------------------------------------------------------------------------
(* Start values of each group of variables *)

SdesStart ==
    /\ spc = "start"
    /\ sKey = NoStr
    /\ sSubKeys = Err("none")
    /\ sBlock = NoStr
    /\ sCipher = Err("none")
    /\ sPlain = Err("none")

TextStart ==
    /\ epc = "start"
    /\ eKey = NoStr
    /\ eSubKeys = Err("none")
    /\ eInput = NoStr
    /\ eEnc = Err("none")
    /\ eDec = Err("none")

HillStart ==
    /\ hpc = "start"
    /\ hText = NoStr
    /\ hMatrix = << <<1, 0>>, <<0, 1>> >>
    /\ hLength = NoLength
    /\ hValid = TRUE
    /\ hEnc = Err("none")
    /\ hDec = Err("none")

StegoStart ==
    /\ gpc = "start"
    /\ gCarrier = BrokenImage
    /\ gMessage = NoStr
    /\ gHide = Err("none")
    /\ gExtract = Err("none")

\* the instance as its constructor leaves it: a new canvas is 300 by 150 and
\* nothing is painted on it; no call has been made
SharedStart ==
    /\ canvas = NewCanvas
    /\ calls = <<>>
    /\ running = 0

\* null
Null == [ok |-> FALSE, err |-> "null"]

NoNotification == [type |-> "none", from |-> "none"]

\* nothing decrypted yet
NoOutput == [shown |-> FALSE]

\* what the page has done so far: the number of successful runs of each stage,
\* of calls of hideInImage and startDecryption and of stages started again
\* after their first run, the plaintext of the stored Hill result, the
\* inputs the stored S-DES result and the stored stego result were made from,
\* the last hideMessage call of hideInImage that settled, and the last one
\* that hideInImage made
NoHistory ==
    [hillRuns |-> 0, sdesRuns |-> 0, hideRuns |-> 0, hideCalls |-> 0, decryptCalls |-> 0,
     again |-> 0, plainText |-> NoStr, sdesOf |-> Null, stegoOf |-> Null, lastHide |-> Null,
     lastCall |-> Null]

\* the globals of the second variant as the script declares them, the awaits
\* and timers of the page that have not completed, what the page shows, and its
\* history: the number of successful Hill and S-DES encryptions, of hideInImage
\* and startDecryption calls and of operations run again, the text the stored
\* Hill result was made from, and for every startDecryption run the steps it
\* started, the step that failed (0: none), what step 5 extracted under which
\* key and matrix, and what step 8 showed
SecondStart ==
    second = [currentStep |-> 1, currentDecryptStep |-> 5,
              hillResult |-> Null, sdesResult |-> Null, steganographyResult |-> Null,
              selectedImage |-> Null,
              reading |-> {}, hiding |-> {}, extracting |-> {}, timers |-> <<>>,
              shown |-> [n \in 5..8 |-> Null],
              hillRuns |-> 0, sdesRuns |-> 0, hideCalls |-> 0, again |-> 0,
              plainText |-> NoStr, runs |-> <<>>]

PageStart ==
    /\ currentStep = 1
    /\ hillCipherResult = Null
    /\ sdesResult = Null
    /\ steganographyResult = Null
    /\ originalImageData = Null
    /\ pendingHide = {}
    /\ pendingExtract = {}
    /\ decryptOutput = NoOutput
    /\ notification = NoNotification
    /\ history = NoHistory

-----------------------------------------------------------------------------
(* S-DES runs: a key schedule, one block encrypted, the result decrypted *)

Keys10 == BinStrings(10)
Blocks8 == BinStrings(8)

SdesInit == SdesStart /\ TextStart /\ HillStart /\ StegoStart /\ SharedStart /\ SecondStart /\ PageStart

GenerateSubKeys ==
    /\ spc = "start"
    /\ \E key \in Keys10 :
        /\ sKey' = key
        /\ sSubKeys' = generateSubKeys(key)
    /\ spc' = "keyed"
    /\ UNCHANGED <<sBlock, sCipher, sPlain, notSdes>>

EncryptBlock ==
    /\ spc = "keyed"
    /\ sSubKeys.ok
    /\ \E b \in Blocks8 :
        /\ sBlock' = b
        /\ sCipher' = encryptBlock(b, sSubKeys.k1, sSubKeys.k2)
    /\ spc' = "enc"
    /\ UNCHANGED <<sKey, sSubKeys, sPlain, notSdes>>

DecryptBlock ==
    /\ spc = "enc"
    /\ sCipher.ok
    /\ sPlain' = decryptBlock(sCipher.block, sSubKeys.k1, sSubKeys.k2)
    /\ spc' = "dec"
    /\ UNCHANGED <<sKey, sSubKeys, sBlock, sCipher, notSdes>>

SdesNext == GenerateSubKeys \/ EncryptBlock \/ DecryptBlock

SpecSdes == SdesInit /\ [][SdesNext]_vars

\* C4: for every 8-bit block b and every 10-bit key k, with (k1,k2) =
\* generateSubKeys(k), decryptBlock(encryptBlock(b,k1,k2),k1,k2) = b.
C4_FeistelInvolution ==
    spc = "dec" => (sPlain.ok /\ sPlain.block = sBlock)

C4_Witness ==
    /\ spc = "dec"
    /\ sPlain.ok
    /\ sCipher.block # sBlock

\* the key and block of the published example, 1010000010 and 10100101
ExampleKey == <<Ch1, Ch0, Ch1, Ch0, Ch0, Ch0, Ch0, Ch0, Ch1, Ch0>>
ExampleBlock == <<Ch1, Ch0, Ch1, Ch0, Ch0, Ch1, Ch0, Ch1>>

AtExample == spc \in {"enc", "dec"} /\ sKey = ExampleKey /\ sBlock = ExampleBlock

\* C5 as stated: with key 1010000010, encryptBlock of block 10100101 returns
\* 00010001.
C5_PublishedVector ==
    AtExample => (sCipher.ok /\ sCipher.block = <<Ch0, Ch0, Ch0, Ch1, Ch0, Ch0, Ch0, Ch1>>)

\* C5 amended: with key 1010000010 the subkeys are K1 = 10100100 and
\* K2 = 01000011, and encryptBlock of block 10100101 returns 11001010.
C5_ExampleVector ==
    AtExample =>
        /\ sSubKeys.k1 = <<Ch1, Ch0, Ch1, Ch0, Ch0, Ch1, Ch0, Ch0>>
        /\ sSubKeys.k2 = <<Ch0, Ch1, Ch0, Ch0, Ch0, Ch0, Ch1, Ch1>>
        /\ sCipher.ok
        /\ sCipher.block = <<Ch1, Ch1, Ch0, Ch0, Ch1, Ch0, Ch1, Ch0>>

C5_Witness == AtExample /\ spc = "enc"

-----------------------------------------------------------------------------
(* S-DES on texts and block lists with any key, and binaryToText on any bit
   string *)

MaxSdesText == 2
MaxBits == 9

\* 1010000010, 0111111101, 0000000000, 1111111111, 1100110011, and keys that
\* are not 10 binary digits: the empty key, 101000001 (9), 10100000100 (11)
\* and 10a0000010
ProbeKeys ==
    { ExampleKey,
      [i \in 1..10 |-> IF i \in {1, 9} THEN Ch0 ELSE Ch1],
      [i \in 1..10 |-> Ch0],
      [i \in 1..10 |-> Ch1],
      [i \in 1..10 |-> IF i % 4 \in {1, 2} THEN Ch1 ELSE Ch0],
      <<>>,
      SubSeq(ExampleKey, 1, 9),
      ExampleKey \o <<Ch0>>,
      [ExampleKey EXCEPT ![3] = 97] }

\* 'A', 'Z' and the characters 0x00, 0xC8 and 0xFF
SdesTexts == UNION {[1..k -> {65, 90, 0, 200, 255}] : k \in 0..MaxSdesText}

\* 10100101, 00110000, and blocks that are not 8 long: 1010010, 101001011, 0
\* and the empty block
ProbeBlocks ==
    { ExampleBlock,
      <<Ch0, Ch0, Ch1, Ch1, Ch0, Ch0, Ch0, Ch0>>,
      SubSeq(ExampleBlock, 1, 7),
      ExampleBlock \o <<Ch1>>,
      <<Ch0>>,
      <<>> }

ProbeBlockLists == UNION {[1..k -> ProbeBlocks] : k \in 0..2}

TextInit == SdesStart /\ TextStart /\ HillStart /\ StegoStart /\ SharedStart /\ SecondStart /\ PageStart

KeySchedule ==
    /\ epc = "start"
    /\ \E key \in ProbeKeys :
        /\ eKey' = key
        /\ eSubKeys' = generateSubKeys(key)
    /\ epc' = "keyed"
    /\ UNCHANGED <<eInput, eEnc, eDec, notText>>

SdesEncrypt ==
    /\ epc = "keyed"
    /\ \E text \in SdesTexts :
        /\ eInput' = text
        /\ eEnc' = SdesEncryptFn(text, eKey)
    /\ epc' = "encrypted"
    /\ UNCHANGED <<eKey, eSubKeys, eDec, notText>>

SdesDecrypt ==
    /\ epc = "encrypted"
    /\ eEnc.ok
    /\ eDec' = SdesDecryptFn(eEnc.output, eKey)
    /\ epc' = "decrypted"
    /\ UNCHANGED <<eKey, eSubKeys, eInput, eEnc, notText>>

SdesDecryptBlocks ==
    /\ epc = "keyed"
    /\ \E blocks \in ProbeBlockLists :
        /\ eInput' = blocks
        /\ eDec' = SdesDecryptFn(blocks, eKey)
    /\ epc' = "blocksDecrypted"
    /\ UNCHANGED <<eKey, eSubKeys, eEnc, notText>>

\* encryptBlock and decryptBlock on one block
ProbeBlock ==
    /\ epc = "keyed"
    /\ eSubKeys.ok
    /\ \E block \in ProbeBlocks :
        /\ eInput' = block
        /\ eEnc' = encryptBlock(block, eSubKeys.k1, eSubKeys.k2)
        /\ eDec' = decryptBlock(block, eSubKeys.k1, eSubKeys.k2)
    /\ epc' = "blockDone"
    /\ UNCHANGED <<eKey, eSubKeys, notText>>

\* binaryToText returns a string for every argument
BinaryToText ==
    /\ epc = "start"
    /\ \E n \in 0..MaxBits : \E binary \in BinStrings(n) :
        /\ eInput' = binary
        /\ eDec' = [ok |-> TRUE, text |-> binaryToText(binary)]
    /\ epc' = "converted"
    /\ UNCHANGED <<eKey, eSubKeys, eEnc, notText>>

TextNext ==
    \/ KeySchedule \/ SdesEncrypt \/ SdesDecrypt \/ SdesDecryptBlocks \/ ProbeBlock
    \/ BinaryToText

SpecText == TextInit /\ [][TextNext]_vars

TenBinaryDigits(key) == Len(key) = 10 /\ \A i \in 1..10 : key[i] \in {Ch0, Ch1}

\* C23: for every text of 8-bit characters and every key of 10 binary digits,
\* SDES.encrypt gives one 8-bit block per character, block i is the block the
\* one-character text of character i gives under the same key, and SDES.decrypt
\* of the blocks with that key gives the text back.
C23_BlockwiseRoundTrip ==
    /\ (epc \in {"encrypted", "decrypted"} /\ TenBinaryDigits(eKey)) =>
        /\ eEnc.ok
        /\ Len(eEnc.output) = Len(eInput)
        /\ \A i \in 1..Len(eInput) :
            /\ Len(eEnc.output[i]) = 8
            /\ \A j \in 1..8 : eEnc.output[i][j] \in {Ch0, Ch1}
            /\ eEnc.output[i] = SdesEncryptFn(<<eInput[i]>>, eKey).output[1]
    /\ (epc = "decrypted" /\ TenBinaryDigits(eKey)) =>
        /\ eDec.ok
        /\ eDec.text = eInput

\* a text of two different characters, one of them above 0x7F, has been
\* encrypted to two different blocks and decrypted
C23_Witness ==
    /\ epc = "decrypted"
    /\ TenBinaryDigits(eKey)
    /\ Len(eInput) = 2
    /\ eInput[1] = 65 /\ eInput[2] = 255
    /\ eEnc.output[1] # eEnc.output[2]
    /\ eDec.text = eInput

\* C14: generateSubKeys, and with it SDES.encrypt and SDES.decrypt, fails with
\* the invalid-key error for every key that is not exactly 10 binary digits:
\* any other length, and any 10-character key with a character other than
\* '0' or '1'.
C14_RejectsEveryOtherKey ==
    (epc # "start" /\ epc # "converted" /\ ~TenBinaryDigits(eKey)) =>
        /\ ~eSubKeys.ok /\ eSubKeys.err = "InvalidKey"
        /\ epc = "encrypted" => (~eEnc.ok /\ eEnc.err = "InvalidKey")
        /\ epc = "blocksDecrypted" => (~eDec.ok /\ eDec.err = "InvalidKey")

\* C15: encryptBlock and decryptBlock fail with the invalid-block error for
\* every block whose length is not 8 (and for no block of length 8), and
\* SDES.decrypt on a block list that contains such a block fails with that
\* error and returns no text.
C15_RejectsEveryOtherBlockLength ==
    /\ epc = "blockDone" =>
        /\ eEnc.ok <=> Len(eInput) = 8
        /\ eDec.ok <=> Len(eInput) = 8
        /\ ~eEnc.ok => eEnc.err = "InvalidBlock"
        /\ ~eDec.ok => eDec.err = "InvalidBlock"
    /\ (epc = "blocksDecrypted" /\ eSubKeys.ok) =>
        /\ eDec.ok <=> \A i \in 1..Len(eInput) : Len(eInput[i]) = 8
        /\ ~eDec.ok => eDec.err = "InvalidBlock"

\* a good block followed by a short last chunk was handed to SDES.decrypt
C15_Witness ==
    /\ epc = "blocksDecrypted"
    /\ eSubKeys.ok
    /\ Len(eInput) = 2
    /\ Len(eInput[1]) = 8
    /\ Len(eInput[2]) = 1
    /\ ~eDec.ok

\* C17: binaryToText treats a bit string whose length is not a multiple of 8
\* as invalid input: it returns no text for a trailing chunk shorter than 8.
C17_RejectsTrailingChunk ==
    (epc = "converted" /\ Len(eInput) % 8 # 0) => ~eDec.ok

-----------------------------------------------------------------------------
(* Hill cipher runs: encrypt a text and decrypt the result, or decrypt a given text *)

MaxEntry == 2
MaxTextLen == 3

\* matrix entries: small ones of both signs, and some outside 0..25
MatEntries == ((0 - MaxEntry)..MaxEntry) \cup {25, 29, -30}

Matrices == {<< <<a, b>>, <<c, d>> >> : a \in MatEntries, b \in MatEntries,
                                        c \in MatEntries, d \in MatEntries}

\* [[3,2],[5,7]] (determinant 11), [[3,3],[2,5]] (9), [[-3,2],[5,7]] (-31),
\* [[2,4],[6,8]] (-8, not invertible), [[30,-1],[27,4]] (147)
KeyMatrices ==
    { << <<3, 2>>, <<5, 7>> >>, << <<3, 3>>, <<2, 5>> >>, << <<-3, 2>>, <<5, 7>> >>,
      << <<2, 4>>, <<6, 8>> >>, << <<30, -1>>, <<27, 4>> >> }

\* 'A', 'X', 'h', 'z', '1', ' '
TextChars == {65, 88, 104, 122, 49, 32}

TextsUpTo(n) == UNION {[1..k -> TextChars] : k \in 0..n}

\* "Hi", "x"
ProbeTexts == {<<72, 105>>, <<120>>}

\* "", "QZ", "Q", "ABXX", "hX1Z", "ABX"
ProbeCiphers == {<<>>, <<81, 90>>, <<81>>, <<65, 66, 88, 88>>, <<104, 88, 49, 90>>,
                 <<65, 66, 88>>}

HillInputs == (TextsUpTo(MaxTextLen) \X KeyMatrices) \cup (ProbeTexts \X Matrices)

HillInit == SdesStart /\ TextStart /\ HillStart /\ StegoStart /\ SharedStart /\ SecondStart /\ PageStart

HillEncrypt ==
    /\ hpc = "start"
    /\ \E in \in HillInputs :
        /\ hText' = in[1]
        /\ hMatrix' = in[2]
        /\ hValid' = validateMatrix2x2(in[2], ALPHABET_SIZE)
        /\ hEnc' = HillEncryptFn(in[1], in[2])
    /\ hpc' = "enc"
    /\ UNCHANGED <<hLength, hDec, notHill>>

HillDecrypt ==
    /\ hpc = "enc"
    /\ hEnc.ok
    /\ hLength' = hEnc.originalLength
    /\ hDec' = HillDecryptFn(hEnc.encryptedText, hEnc.keyMatrix, hEnc.originalLength)
    /\ hpc' = "dec"
    /\ UNCHANGED <<hText, hMatrix, hValid, hEnc, notHill>>

HillDecryptText ==
    /\ hpc = "start"
    /\ \E ct \in ProbeCiphers, m \in Matrices \cup KeyMatrices :
        \E len \in {NoLength} \cup (0..Len(ct)) :
            /\ hText' = ct
            /\ hMatrix' = m
            /\ hLength' = len
            /\ hValid' = validateMatrix2x2(m, ALPHABET_SIZE)
            /\ hDec' = HillDecryptFn(ct, m, len)
    /\ hpc' = "decText"
    /\ UNCHANGED <<hEnc, notHill>>

HillNext == HillEncrypt \/ HillDecrypt \/ HillDecryptText

SpecHill == HillInit /\ [][HillNext]_vars

RECURSIVE Gcd(_, _)
Gcd(a, b) == IF b = 0 THEN a ELSE Gcd(b, a % b)

\* a*d - b*c of the matrix, reduced to 0..25
DetMod26(m) == (m[1][1] * m[2][2] - m[1][2] * m[2][1]) % 26

Coprime26(m) == Gcd(DetMod26(m), 26) = 1

ProductMod26(a, b) ==
    [i \in 1..2 |-> [j \in 1..2 |-> (a[i][1] * b[1][j] + a[i][2] * b[2][j]) % 26]]

Identity2x2 == << <<1, 0>>, <<0, 1>> >>

\* C22: for every 2x2 integer matrix whose determinant is invertible mod 26,
\* matrixInverse2x2 has all its entries in 0..25 and its product with the matrix
\* is the identity mod 26, in both orders.
C22_InverseIsInverse ==
    (hpc # "start" /\ Coprime26(hMatrix)) =>
        \E inverse \in {matrixInverse2x2(hMatrix, ALPHABET_SIZE)} :
            /\ inverse.ok
            /\ \A i \in 1..2, j \in 1..2 : inverse.val[i][j] \in 0..25
            /\ ProductMod26(inverse.val, hMatrix) = Identity2x2
            /\ ProductMod26(hMatrix, inverse.val) = Identity2x2

\* a matrix with a negative determinant, an entry above 25 and non-zero
\* off-diagonal entries has been inverted by decrypt
C22_Witness ==
    /\ hpc = "decText"
    /\ hDec.ok
    /\ matrixDeterminant2x2(hMatrix) < 0
    /\ hMatrix[1][2] % 26 # 0 /\ hMatrix[2][1] % 26 # 0
    /\ \E i \in 1..2, j \in 1..2 : hMatrix[i][j] > 25

\* C21: for every text p and invertible matrix m, decrypt of encrypt(p, m)
\* with the originalLength that encrypt returned is the upper-cased letters of
\* p: a plaintext that ends in 'X' keeps it, and only the pad letter added for
\* an odd letter count is dropped.
C21_TruncationKeepsGenuineX ==
    hpc = "dec" =>
        /\ hDec.ok
        /\ hDec.text = LettersUpper(hText)
        /\ Len(hDec.text) = hLength

\* a plaintext of three letters that ends in 'X' has been decrypted: one 'X' was
\* added as padding and the decrypted text still ends in 'X'
C21_Witness ==
    /\ hpc = "dec"
    /\ Len(hText) = 3
    /\ hLength = 3
    /\ ToUpper(hText[3]) = ChX
    /\ Len(hEnc.encryptedText) = 4
    /\ hDec.text[3] = ChX

\* the text HillCipher.decrypt decodes before any removal of padding
DecodedText == HillPairs(hText, matrixInverse2x2(hMatrix, ALPHABET_SIZE).val)

\* C13: whenever an originalLength from 0 up to the ciphertext length is
\* supplied, HillCipher.decrypt returns exactly the first originalLength
\* characters of the decoded text.
C13_FirstOriginalLengthCharacters ==
    (hpc = "decText" /\ hDec.ok /\ hLength # NoLength) =>
        hDec.text = SubSeq(DecodedText, 1, hLength)

-----------------------------------------------------------------------------
(* Steganography runs: hide a message in a carrier and extract it again, or
   extract from a carrier nothing was hidden in *)

MaxPixels == 11

\* pixels as R, G, B, A: low bits 111, 010 and 011
White == <<255, 255, 255, 255>>
Teal == <<254, 1, 128, 0>>
Dusk == <<0, 255, 77, 128>>

Palette == {White, Teal, Dusk}

\* the image of n pixels (n wide, 1 high), all of colour base except the
\* pixels at the positions in special, which have colour other
Picture(n, base, special, other) ==
    Image(n, 1, Concat([p \in 1..n |-> IF p \in special THEN other ELSE base]))

\* carriers of n pixels: one colour with at most two pixels of another colour
CarriersOf(n) ==
    {Picture(n, base, {p, q}, other) :
        base \in Palette, other \in Palette, p \in 1..n, q \in 1..n}

\* carriers large enough for the second variant, which wants a pixel per bit
WideCarriers == {Picture(n, base, {}, base) : n \in {16, 24}, base \in Palette}

StegoCarriers == UNION {CarriersOf(n) : n \in 1..MaxPixels} \cup WideCarriers

MaxPayload == 3

\* what hideInImage hands to hideMessage: strings of '0' and '1' characters
BinaryPayloads == UNION {BinStrings(n) : n \in 0..MaxPayload}

\* the strings of '0' and '1', "A", and the two characters 0xFF 0xFE
StegoMessages == BinaryPayloads \cup {<<ChA>>, <<255, 254>>}

StegoInit == SdesStart /\ TextStart /\ HillStart /\ StegoStart /\ SharedStart /\ SecondStart /\ PageStart

HideMessage ==
    /\ gpc = "start"
    /\ \E carrier \in StegoCarriers \cup {BrokenImage}, message \in StegoMessages :
        /\ gCarrier' = carrier
        /\ gMessage' = message
        /\ gHide' = HideMessageFn(carrier, message)
    /\ gpc' = "hidden"
    /\ UNCHANGED <<gExtract, notStego>>

HideMessageV2 ==
    /\ gpc = "start"
    /\ \E carrier \in StegoCarriers \cup {BrokenImage}, message \in StegoMessages :
        /\ gCarrier' = carrier
        /\ gMessage' = message
        /\ gHide' = HideMessageV2Fn(carrier, message)
    /\ gpc' = "hidden2"
    /\ UNCHANGED <<gExtract, notStego>>

ExtractHidden ==
    /\ gpc = "hidden"
    /\ gHide.ok
    /\ gExtract' = ExtractMessageFn(gHide.stegoImage)
    /\ gpc' = "extracted"
    /\ UNCHANGED <<gCarrier, gMessage, gHide, notStego>>

ExtractHiddenV2 ==
    /\ gpc = "hidden2"
    /\ gHide.ok
    /\ gExtract' = ExtractMessageV2Fn(gHide.stegoImageData)
    /\ gpc' = "extracted2"
    /\ UNCHANGED <<gCarrier, gMessage, gHide, notStego>>

ExtractCarrier ==
    /\ gpc = "start"
    /\ \E carrier \in StegoCarriers \cup {BrokenImage} :
        /\ gCarrier' = carrier
        /\ gExtract' = ExtractMessageFn(carrier)
    /\ gpc' = "probed"
    /\ UNCHANGED <<gMessage, gHide, notStego>>

ExtractCarrierV2 ==
    /\ gpc = "start"
    /\ \E carrier \in StegoCarriers \cup {BrokenImage} :
        /\ gCarrier' = carrier
        /\ gExtract' = ExtractMessageV2Fn(carrier)
    /\ gpc' = "probed2"
    /\ UNCHANGED <<gMessage, gHide, notStego>>

StegoNext ==
    \/ HideMessage \/ HideMessageV2 \/ ExtractHidden \/ ExtractHiddenV2
    \/ ExtractCarrier \/ ExtractCarrierV2

SpecStego == StegoInit /\ [][StegoNext]_vars

-----------------------------------------------------------------------------
(* Calls on the one LSBSteganography instance of the second variant, started
   while earlier calls are still waiting for their image to decode. The
   handlers run one at a time; the continuation of an await is a microtask,
   which runs before the next handler. *)

MaxCalls == 2

\* carriers of 24 and 25 pixels, as 24 by 1, 12 by 2 and 5 by 5, and one of 16
\* pixels, too small for a character and the delimiter
SharedCarriers ==
    { Picture(24, White, {2}, Dusk),
      Image(12, 2, Picture(24, Dusk, {1, 7}, Teal).data),
      Image(5, 5, Picture(25, Teal, {3}, White).data),
      Image(4, 4, Picture(16, White, {}, White).data) }

\* "A" and "B"
SharedMessages == {<<ChA>>, <<66>>}

\* images that carry a payload, with the payload they carry
SharedStegoImages ==
    { [image |-> HideMessageV2Fn(Picture(24, White, {2}, Dusk), <<ChA>>).stegoImageData,
       payload |-> <<ChA>>],
      [image |-> HideMessageV2Fn(Image(5, 5, Picture(25, Teal, {3}, White).data),
                                 <<66>>).stegoImageData,
       payload |-> <<66>>] }

SharedInit == SdesStart /\ TextStart /\ HillStart /\ StegoStart /\ SharedStart /\ SecondStart /\ PageStart

\* a call up to its await: the image starts to decode
Called(op, imageData, message) ==
    [op |-> op, imageData |-> imageData, message |-> message, pc |-> "decoding",
     resolved |-> BrokenImage, result |-> Err("none")]

\* lsbSteganography.hideMessage(imageData, message) up to the await
hideMessageCalled ==
    /\ running = 0
    /\ Len(calls) < MaxCalls
    /\ \E imageData \in SharedCarriers \cup {BrokenImage}, message \in SharedMessages :
        calls' = Append(calls, Called("hide", imageData, message))
    /\ UNCHANGED <<canvas, running, notShared>>

\* lsbSteganography.extractMessage(stegoImageData) up to the await; message
\* records the payload the image carries
extractMessageCalled ==
    /\ running = 0
    /\ Len(calls) < MaxCalls
    /\ \/ \E input \in SharedStegoImages :
            calls' = Append(calls, Called("extract", input.image, input.payload))
       \/ calls' = Append(calls, Called("extract", BrokenImage, NoStr))
    /\ UNCHANGED <<canvas, running, notShared>>

\* img.onload of one waiting call: the shared canvas is resized and drawn on,
\* its pixels are read, and the promise the call awaits is resolved
imageLoaded ==
    /\ running = 0
    /\ \E c \in 1..Len(calls) :
        /\ calls[c].pc = "decoding"
        /\ calls[c].imageData.ok
        /\ \E loaded \in {imageDataToCanvas(canvas, calls[c].imageData)} :
            /\ canvas' = loaded.canvas
            /\ calls' = [calls EXCEPT ![c].pc = "resuming", ![c].resolved = loaded.resolved]
        /\ running' = c
    /\ UNCHANGED notShared

\* img.onerror of one waiting call: the promise is rejected and so is the call
imageFailed ==
    /\ running = 0
    /\ \E c \in 1..Len(calls) :
        /\ calls[c].pc = "decoding"
        /\ ~calls[c].imageData.ok
        /\ calls' = [calls EXCEPT ![c].pc = "done", ![c].result = Err("ImageDecodeFailure")]
    /\ UNCHANGED <<canvas, running, notShared>>

\* hideMessage from its await to its return or throw
hideMessageResumed ==
    /\ running # 0
    /\ calls[running].op = "hide"
    /\ \E done \in {hideMessageV2Resumed(canvas, calls[running].resolved,
                                         calls[running].imageData, calls[running].message)} :
        /\ canvas' = done.canvas
        /\ calls' = [calls EXCEPT ![running].pc = "done", ![running].result = done.result]
    /\ running' = 0
    /\ UNCHANGED notShared

\* extractMessage from its await to its return or throw
extractMessageResumed ==
    /\ running # 0
    /\ calls[running].op = "extract"
    /\ calls' = [calls EXCEPT ![running].pc = "done",
                              ![running].result = ExtractMessageV2Fn(calls[running].resolved)]
    /\ running' = 0
    /\ UNCHANGED <<canvas, notShared>>

SharedNext ==
    \/ hideMessageCalled \/ extractMessageCalled
    \/ imageLoaded \/ imageFailed
    \/ hideMessageResumed \/ extractMessageResumed

SpecShared == SharedInit /\ [][SharedNext]_vars

\* the calls that have returned or thrown
Done == {c \in 1..Len(calls) : calls[c].pc = "done"}

\* C19: whatever the order in which the images of concurrently started calls
\* decode, a hideMessage call that returns gives its own carrier with its own
\* message and the delimiter in the low bits of its first R, G, B bytes and
\* every other byte as in the carrier, and an extractMessage call returns the
\* payload of its own input image.
C19_CallsUseOwnPixels ==
    \A c \in Done :
        LET call == calls[c]
        IN  /\ (call.op = "hide" /\ call.result.ok) =>
                /\ call.result.originalImageData = call.imageData
                /\ call.result.hiddenMessage = call.message
                /\ call.result.stegoImageData =
                      Image(call.imageData.width, call.imageData.height,
                            EmbedBits(call.imageData.data,
                                      textToBinary(call.message) \o DELIMITER))
            /\ (call.op = "hide" /\ ~call.result.ok) =>
                call.result = HideMessageV2Fn(call.imageData, call.message)
            /\ (call.op = "extract" /\ call.imageData.ok) =>
                /\ call.result.ok
                /\ call.result.text = call.message
            /\ ~call.imageData.ok => call.result = Err("ImageDecodeFailure")

\* an embedding and an extraction on images of different sizes were waiting at
\* once, the image of the extraction, called second, decoded first, and both
\* calls have returned
C19_Witness ==
    /\ Len(calls) = 2
    /\ Done = {1, 2}
    /\ calls[1].op = "hide" /\ calls[1].result.ok
    /\ calls[2].op = "extract" /\ calls[2].result.ok
    /\ calls[1].imageData.width # calls[2].imageData.width
    /\ calls[1].message # calls[2].message
    /\ canvas.painted = calls[1].result.stegoImageData

-----------------------------------------------------------------------------
(* Properties of the steganography runs *)

PixelCount(img) == Len(img.data) \div 4

\* the low bits of the R, G and B bytes of an image, pixel by pixel, as a
\* string of '0' and '1'
RgbLowBits(img) ==
    [n \in 1..(3 * PixelCount(img)) |->
        LET pixel == (n - 1) \div 3
            channel == (n - 1) % 3
        IN  IF img.data[4 * pixel + channel + 1] % 2 = 1 THEN Ch1 ELSE Ch0]

\* the positions at which an occurrence of 1111111111111110 ends in bits
DelimiterEnds(bits) ==
    {e \in 16..Len(bits) :
        /\ \A i \in (e - 15)..(e - 1) : bits[i] = Ch1
        /\ bits[e] = Ch0}

FirstDelimiterEnd(bits) ==
    CHOOSE e \in DelimiterEnds(bits) : \A f \in DelimiterEnds(bits) : e <= f

\* payload bits plus the 16 delimiter bits, and 3 bits per pixel
UsedBits == 8 * Len(gMessage) + 16
CapacityBits == 3 * PixelCount(gCarrier)

\* C7: in script.js, with capacityBits = 3 * pixelCount and usedBits = payload
\* length + 16, hideMessage succeeds when usedBits = capacityBits (and every
\* payload and delimiter bit is written) and fails with the capacity error
\* when usedBits = capacityBits + 1.
C7_CapacityBoundary ==
    (gpc \in {"hidden", "extracted"} /\ gCarrier.ok) =>
        /\ UsedBits = CapacityBits =>
            /\ gHide.ok
            /\ gHide.used = UsedBits
            /\ gHide.capacity = CapacityBits
            /\ RgbLowBits(gHide.stegoImage) = textToBinary(gMessage) \o DELIMITER
        /\ UsedBits = CapacityBits + 1 =>
            /\ ~gHide.ok
            /\ gHide.err = "CapacityExceeded"

C7_Witness ==
    /\ gpc = "hidden"
    /\ gCarrier.ok
    /\ gMessage # <<>>
    /\ UsedBits = CapacityBits
    /\ gHide.ok

\* C8: in the second variant hideMessage rejects a message with the capacity
\* error only when payload + 16 > 3 * pixelCount; every payload with
\* payload + 16 <= 3 * pixelCount is embedded.
C8_RgbCapacityV2 ==
    (gpc \in {"hidden2", "extracted2"} /\ gCarrier.ok) =>
        (gHide.ok <=> UsedBits <= CapacityBits)

\* the image an extractMessage call of the run read
ExtractedFrom ==
    CASE gpc \in {"probed", "probed2"} -> gCarrier
      [] gpc = "extracted" -> gHide.stegoImage
      [] gpc = "extracted2" -> gHide.stegoImageData

\* C9 as stated: extractMessage on any carrier into which nothing was embedded
\* fails with the delimiter-not-found error.
C9_NeverEmbeddedFails ==
    (gpc \in {"probed", "probed2"} /\ gCarrier.ok) =>
        (~gExtract.ok /\ gExtract.err = "DelimiterNotFound")

\* C9 amended: extractMessage on a carrier into which nothing was embedded fails
\* with the delimiter-not-found error exactly when the low bits of its R, G, B
\* bytes, in pixel order, do not contain 1111111111111110; when they contain it,
\* a message is returned.
C9_FailsUnlessPatternPresent ==
    (gpc \in {"probed", "probed2"} /\ gCarrier.ok) =>
        /\ gExtract.ok <=> DelimiterEnds(RgbLowBits(gCarrier)) # {}
        /\ ~gExtract.ok => gExtract.err = "DelimiterNotFound"

C9_Witness ==
    /\ gpc \in {"probed", "probed2"}
    /\ gCarrier.ok
    /\ gExtract.ok

\* C10 as stated: extractMessage reads the low bit of R, G, B in pixel order
\* and at the first match of the delimiter returns exactly the bits accumulated
\* before those 16; without a match it fails.
C10_ReturnsBits ==
    (gpc \in {"probed", "extracted"} /\ ExtractedFrom.ok) =>
        LET bits == RgbLowBits(ExtractedFrom)
        IN  IF DelimiterEnds(bits) = {}
            THEN ~gExtract.ok /\ gExtract.err = "DelimiterNotFound"
            ELSE /\ gExtract.ok
                 /\ gExtract.text = SubSeq(bits, 1, FirstDelimiterEnd(bits) - 16)

\* C10 amended: extractMessage reads the low bit of R, G, B (never alpha) in
\* pixel order, tests after every bit whether the last 16 bits are
\* 1111111111111110, and at the first match returns the text binaryToText makes
\* of the bits accumulated before those 16 (one character per 8 bits, a shorter
\* last group read as a binary number); without a match it fails.
C10_ReturnsTextOfBits ==
    (gpc \in {"probed", "extracted"} /\ ExtractedFrom.ok) =>
        LET bits == RgbLowBits(ExtractedFrom)
        IN  IF DelimiterEnds(bits) = {}
            THEN ~gExtract.ok /\ gExtract.err = "DelimiterNotFound"
            ELSE /\ gExtract.ok
                 /\ gExtract.text =
                        binaryToText(SubSeq(bits, 1, FirstDelimiterEnd(bits) - 16))

\* a carrier nothing was embedded in, whose low bits hold three bits and then
\* the delimiter pattern
C10_Witness ==
    /\ gpc = "probed"
    /\ gCarrier.ok
    /\ gExtract.ok
    /\ FirstDelimiterEnd(RgbLowBits(gCarrier)) = 19

\* a hideMessage call of either variant has returned a result
Embedded == gpc \in {"hidden", "extracted", "hidden2", "extracted2"} /\ gHide.ok

\* the pixels of the stego image a hideMessage call returned
StegoData ==
    IF gpc \in {"hidden", "extracted"} THEN gHide.stegoImage.data
    ELSE gHide.stegoImageData.data

\* C11: hideMessage does not mutate the decoded buffer of the carrier (the
\* quality metric is computed against the carrier as it was), changes no alpha
\* byte, changes nothing but the least significant bit of R, G, B bytes, and
\* leaves every channel byte after the first usedBits R, G, B channels as it was.
C11_OnlyLowBitsOfUsedChannels ==
    Embedded =>
        /\ Len(StegoData) = Len(gCarrier.data)
        /\ gHide.psnr.sse = SumSquares(gCarrier.data, StegoData, 1, Len(StegoData))
        /\ \A idx \in 1..Len(StegoData) :
            /\ idx % 4 = 0 => StegoData[idx] = gCarrier.data[idx]
            /\ StegoData[idx] \div 2 = gCarrier.data[idx] \div 2
        /\ \A k \in 0..(CapacityBits - 1) :
            k >= UsedBits => StegoData[ChannelIndex(k)] = gCarrier.data[ChannelIndex(k)]

\* an embed that changed a byte and left R, G, B channels unused
C11_Witness ==
    /\ Embedded
    /\ UsedBits < CapacityBits
    /\ StegoData # gCarrier.data

\* the bytes whose value the embed changed
ChangedBytes == {idx \in 1..Len(StegoData) : StegoData[idx] # gCarrier.data[idx]}

ByOne(a, b) == a - b = 1 \/ b - a = 1

\* C12 as stated: embedding a payload of L bits changes at most L colour-channel
\* values, each by exactly 1.
C12_AtMostPayloadBits ==
    Embedded =>
        /\ Cardinality(ChangedBytes) <= 8 * Len(gMessage)
        /\ \A idx \in ChangedBytes : ByOne(StegoData[idx], gCarrier.data[idx])

\* C12 amended: embedding a payload of L bits changes at most L + 16
\* colour-channel values (the 16 delimiter bits are written too), each by
\* exactly 1; the second variant's pixelsModified is the number of changed values.
C12_AtMostUsedBits ==
    Embedded =>
        /\ Cardinality(ChangedBytes) <= UsedBits
        /\ \A idx \in ChangedBytes : ByOne(StegoData[idx], gCarrier.data[idx])
        /\ gpc \in {"hidden2", "extracted2"} =>
                gHide.pixelsModified = Cardinality(ChangedBytes)

\* an embed that changed more values than the payload has bits
C12_Witness ==
    /\ Embedded
    /\ gMessage # <<>>
    /\ Cardinality(ChangedBytes) > 8 * Len(gMessage)

\* C26: a payload of '0' and '1' characters is embedded as the 8-bit codes
\* 00110000 and 00110001, so in the low bits of the stego image the delimiter
\* ends nowhere before the end of the appended delimiter, and extractMessage
\* on the stego image returns exactly the payload.
C26_BinaryPayloadNeverHoldsDelimiter ==
    (gpc \in {"hidden", "extracted"} /\ gHide.ok /\ gMessage \in BinaryPayloads) =>
        /\ {e \in DelimiterEnds(RgbLowBits(gHide.stegoImage)) : e <= UsedBits} = {UsedBits}
        /\ gpc = "extracted" => (gExtract.ok /\ gExtract.text = gMessage)

\* the payload "111" has been embedded and extracted: its last embedded bit is
\* a 1 next to the fifteen 1s of the delimiter
C26_Witness ==
    /\ gpc = "extracted"
    /\ gMessage = <<Ch1, Ch1, Ch1>>
    /\ gExtract.ok
    /\ gExtract.text = gMessage
    /\ RgbLowBits(gHide.stegoImage)[24] = Ch1

\* the bits of the payload are the low bits of the first R, G, B bytes of the carrier
PayloadMatches ==
    /\ 8 * Len(gMessage) <= CapacityBits
    /\ textToBinary(gMessage) = SubSeq(RgbLowBits(gCarrier), 1, 8 * Len(gMessage))

\* C24 as stated: a pair of buffers equal in every R, G, B byte has infinite
\* PSNR, and embedding an empty payload, or one whose bits already equal the
\* carrier's low bits, gives such a pair.
C24_EmptyOrMatchingPayloadIsInfinite ==
    Embedded =>
        /\ ChangedBytes = {} => (gHide.psnr.infinite /\ gHide.psnr.sse = 0)
        /\ (gMessage = <<>> \/ PayloadMatches) =>
                (ChangedBytes = {} /\ gHide.psnr.infinite)

\* C24 amended: the PSNR is infinite exactly when the stego buffer equals the
\* carrier in every R, G, B byte, and an embed gives such a pair exactly when
\* the payload bits followed by the 16 delimiter bits all equal the low bits of
\* the carrier's first R, G, B bytes.
C24_InfiniteIffDelimiterMatchesToo ==
    Embedded =>
        /\ gHide.psnr.infinite <=> ChangedBytes = {}
        /\ gHide.psnr.infinite <=> gHide.psnr.sse = 0
        /\ ChangedBytes = {} <=>
                textToBinary(gMessage) \o DELIMITER = SubSeq(RgbLowBits(gCarrier), 1, UsedBits)

\* the empty payload has been embedded in a carrier whose first sixteen low
\* bits are the delimiter: no byte changed and the PSNR is infinite
C24_Witness ==
    /\ Embedded
    /\ gMessage = <<>>
    /\ ChangedBytes = {}
    /\ gHide.psnr.infinite


-----------------------------------------------------------------------------
(* The page of script.js: encryptHillCipher, encryptSDES, the image upload,
   hideInImage and startDecryption.  Each operation is defined over the inputs
   the user may give it and the number of times a stage may be started again
   after its first run, so that the page is explored both with one run of each
   stage over many inputs (SpecRun) and with stages started again in any
   order over fewer inputs (Spec). *)

\* String.prototype.trim, for the blank the model uses
IsBlank(c) == c = 32

RECURSIVE TrimStart(_)
TrimStart(text) ==
    IF text # <<>> /\ IsBlank(Head(text)) THEN TrimStart(Tail(text)) ELSE text

RECURSIVE TrimEnd(_)
TrimEnd(text) ==
    IF text # <<>> /\ IsBlank(text[Len(text)])
    THEN TrimEnd(SubSeq(text, 1, Len(text) - 1)) ELSE text

Trim(text) == TrimEnd(TrimStart(text))

\* getSDESKey
getSDESKey(fields) == Concat(fields)

\* validateSDESKey
validateSDESKey(fields) == \A i \in 1..Len(fields) : fields[i] \in {<<Ch0>>, <<Ch1>>}

Notify(type, from) == [type |-> type, from |-> from]

\* a stage that has run `count` times may run again while fewer than `again`
\* stages were started again
MayRun(count, again) == count = 0 \/ history.again < again

Ran(count) == IF count = 0 THEN history.again ELSE history.again + 1

\* encryptHillCipher with an empty message or an invalid matrix: a notification
EncryptHillCipherRejected(texts, matrices) ==
    /\ TRUE = \E plainTextValue \in texts, keyMatrix \in matrices :
                  \/ Trim(plainTextValue) = <<>>
                  \/ ~validateMatrix2x2(keyMatrix, 26)
    /\ notification' = Notify("error", "hill")
    /\ UNCHANGED <<globalVars, pendingHide, pendingExtract, decryptOutput, history, notPage>>

EncryptHillCipher(texts, matrices, again) ==
    /\ MayRun(history.hillRuns, again)
    /\ \E plainTextValue \in texts, keyMatrix \in matrices :
        \E plainText \in {Trim(plainTextValue)} :
            /\ plainText # <<>>
            /\ validateMatrix2x2(keyMatrix, 26)
            /\ \E result \in {HillEncryptFn(plainText, keyMatrix)} :
                    result.ok /\ hillCipherResult' = result
            /\ history' = [history EXCEPT !.hillRuns = @ + 1,
                                          !.again = Ran(history.hillRuns),
                                          !.plainText = plainText]
    /\ currentStep' = 2
    /\ notification' = Notify("success", "hill")
    /\ UNCHANGED <<sdesResult, steganographyResult, originalImageData, pendingHide,
                   pendingExtract, decryptOutput, notPage>>

\* EncryptSDESRejected with sdesResult reset before the validation
EncryptSDESRejected_ClearsResult(keyFields) ==
    /\ TRUE = (~hillCipherResult.ok \/ \E fields \in keyFields : ~validateSDESKey(fields))
    /\ sdesResult' = Null
    /\ notification' = Notify("error", "sdes")
    /\ UNCHANGED <<currentStep, hillCipherResult, steganographyResult, originalImageData,
                   pendingHide, pendingExtract, decryptOutput, history, notPage>>

\* encryptSDES before a Hill encryption, or with a key field that is not 0 or 1
EncryptSDESRejected(keyFields) ==
    /\ TRUE = (~hillCipherResult.ok \/ \E fields \in keyFields : ~validateSDESKey(fields))
    /\ notification' = Notify("error", "sdes")
    /\ UNCHANGED <<globalVars, pendingHide, pendingExtract, decryptOutput, history, notPage>>

\* what the stored Hill result was made from
HillOrigin == [plainText |-> history.plainText,
               keyMatrix |-> hillCipherResult.keyMatrix,
               originalLength |-> hillCipherResult.originalLength]

EncryptSDES(keyFields, again) ==
    /\ MayRun(history.sdesRuns, again)
    /\ hillCipherResult.ok
    /\ \E fields \in keyFields :
        /\ validateSDESKey(fields)
        /\ \E result \in {SdesEncryptFn(hillCipherResult.encryptedText, getSDESKey(fields))} :
                result.ok /\ sdesResult' = result
    /\ history' = [history EXCEPT !.sdesRuns = @ + 1,
                                  !.again = Ran(history.sdesRuns),
                                  !.sdesOf = HillOrigin]
    /\ currentStep' = 5
    /\ notification' = Notify("success", "sdes")
    /\ UNCHANGED <<hillCipherResult, steganographyResult, originalImageData, pendingHide,
                   pendingExtract, decryptOutput, notPage>>

\* reader.onload of handleFileSelect
ImageLoaded(images) ==
    /\ \E file \in images : originalImageData' = file
    /\ notification' = Notify("success", "upload")
    /\ UNCHANGED <<currentStep, hillCipherResult, sdesResult, steganographyResult,
                   pendingHide, pendingExtract, decryptOutput, history, notPage>>

hideInImageRejected ==
    /\ ~sdesResult.ok \/ originalImageData = Null
    /\ notification' = Notify("error", "stego")
    /\ UNCHANGED <<globalVars, pendingHide, pendingExtract, decryptOutput, history, notPage>>

\* the hideMessage call of hideInImage: the uploaded image and the joined
\* S-DES blocks as the globals hold them when hideInImage runs
HideCall ==
    [call |-> history.hideCalls + 1,
     imageData |-> originalImageData,
     message |-> Concat(sdesResult.output),
     of |-> [plainText |-> history.sdesOf.plainText,
             keyMatrix |-> history.sdesOf.keyMatrix,
             originalLength |-> history.sdesOf.originalLength,
             key |-> sdesResult.key]]

\* HideInImage storing a result record before the image is decoded
HideInImage_StoresEarly(again) ==
    /\ MayRun(history.hideCalls, again)
    /\ sdesResult.ok
    /\ originalImageData # Null
    /\ pendingHide' = pendingHide \cup {HideCall}
    /\ steganographyResult' = [ok |-> TRUE, originalImage |-> originalImageData,
                               stegoImage |-> originalImageData,
                               message |-> Concat(sdesResult.output)]
    /\ history' = [history EXCEPT !.hideCalls = @ + 1, !.again = Ran(history.hideCalls),
                                  !.lastCall = HideCall]
    /\ UNCHANGED <<currentStep, hillCipherResult, sdesResult, originalImageData,
                   pendingExtract, decryptOutput, notification, notPage>>

\* hideInImage up to the await of the image decode in hideMessage
HideInImage(again) ==
    /\ MayRun(history.hideCalls, again)
    /\ sdesResult.ok
    /\ originalImageData # Null
    /\ pendingHide' = pendingHide \cup {HideCall}
    /\ history' = [history EXCEPT !.hideCalls = @ + 1, !.again = Ran(history.hideCalls),
                                  !.lastCall = HideCall]
    /\ UNCHANGED <<globalVars, pendingExtract, decryptOutput, notification, notPage>>

\* the image of a pending hideMessage is decoded and hideMessage runs to its end:
\* the .then or the .catch of hideInImage
hideMessageSettled ==
    \E p \in pendingHide :
      \E result \in {HideMessageFn(p.imageData, p.message)} :
        LET settled == [ok |-> TRUE, call |-> p.call, of |-> p.of,
                        decoded |-> p.imageData.ok,
                        capacityBits |-> IF p.imageData.ok
                                         THEN MaxCapacity(p.imageData.data) ELSE 0,
                        embedded |-> result.ok,
                        err |-> IF result.ok THEN "none" ELSE result.err]
        IN  /\ pendingHide' = pendingHide \ {p}
            /\ IF result.ok
               THEN /\ steganographyResult' = result
                    /\ currentStep' = 8
                    /\ notification' = Notify("success", "stego")
                    /\ history' = [history EXCEPT !.hideRuns = @ + 1, !.stegoOf = p.of,
                                                  !.lastHide = settled]
               ELSE /\ notification' = Notify("error", "stego")
                    /\ history' = [history EXCEPT !.lastHide = settled]
                    /\ UNCHANGED <<steganographyResult, currentStep>>
            /\ UNCHANGED <<hillCipherResult, sdesResult, originalImageData, pendingExtract,
                           decryptOutput, notPage>>

startDecryptionRejected ==
    /\ ~steganographyResult.ok \/ ~hillCipherResult.ok \/ ~sdesResult.ok
    /\ notification' = Notify("error", "decrypt")
    /\ UNCHANGED <<globalVars, pendingHide, pendingExtract, decryptOutput, history, notPage>>

\* startDecryption up to the await of the image decode in extractMessage
StartDecryption(again) ==
    /\ MayRun(history.decryptCalls, again)
    /\ steganographyResult.ok /\ hillCipherResult.ok /\ sdesResult.ok
    /\ pendingExtract' = pendingExtract \cup
            {[call |-> history.decryptCalls + 1,
              imageData |-> steganographyResult.stegoImage,
              of |-> history.stegoOf]}
    /\ history' = [history EXCEPT !.decryptCalls = @ + 1,
                                  !.again = Ran(history.decryptCalls)]
    /\ UNCHANGED <<globalVars, pendingHide, decryptOutput, notification, notPage>>

\* the .then callback of startDecryption on the extracted text
DecryptExtracted(extractedBinary, key, keyMatrix, originalLength) ==
    LET binaryBlocks == Chunks8(extractedBinary)
        sdesDecrypted == SdesDecryptFn(binaryBlocks, key)
    IN  IF ~sdesDecrypted.ok THEN sdesDecrypted
        ELSE HillDecryptFn(sdesDecrypted.text, keyMatrix, originalLength)

\* the stego image of a pending extractMessage is decoded and extractMessage runs
\* to its end: the .then or the .catch of startDecryption
extractMessageSettled ==
    \E p \in pendingExtract :
      \E extracted \in {ExtractMessageFn(p.imageData)} :
        \E finalDecrypted \in
              {IF ~extracted.ok THEN extracted
               ELSE DecryptExtracted(extracted.text, sdesResult.key,
                                     hillCipherResult.keyMatrix,
                                     hillCipherResult.originalLength)} :
            /\ pendingExtract' = pendingExtract \ {p}
            /\ IF finalDecrypted.ok
               THEN /\ decryptOutput' =
                          [shown |-> TRUE,
                           text |-> finalDecrypted.text,
                           used |-> [keyMatrix |-> hillCipherResult.keyMatrix,
                                     originalLength |-> hillCipherResult.originalLength,
                                     key |-> sdesResult.key],
                           of |-> p.of]
                    /\ notification' = Notify("success", "decrypt")
               ELSE /\ notification' = Notify("error", "decrypt")
                    /\ UNCHANGED decryptOutput
            /\ UNCHANGED <<globalVars, pendingHide, history, notPage>>

PageInit == SdesStart /\ TextStart /\ HillStart /\ StegoStart /\ SharedStart /\ SecondStart /\ PageStart

-----------------------------------------------------------------------------
(* The page with stages started again *)

MaxAgain == 1

\* "Hi", "x", " "
PlainTexts == {<<72, 105>>, <<120>>, <<32>>}

\* [[3,2],[5,7]], [[-3,2],[5,7]] and the non-invertible [[2,4],[6,8]]
PageMatrices ==
    { << <<3, 2>>, <<5, 7>> >>, << <<-3, 2>>, <<5, 7>> >>, << <<2, 4>>, <<6, 8>> >> }

\* the values of the ten .bit-input fields: 1010000010, 0111111101, and
\* 101000001 with the last field empty
PageKeyFields ==
    { [i \in 1..10 |-> <<ExampleKey[i]>>],
      [i \in 1..10 |-> IF i \in {1, 9} THEN <<Ch0>> ELSE <<Ch1>>],
      [i \in 1..10 |-> IF i = 10 THEN <<>> ELSE <<ExampleKey[i]>>] }

\* uploaded images: 48 pixels (room for 144 bits) and a file that does not decode
PageImages == { Picture(48, Dusk, {1, 7}, Teal), BrokenImage }

encryptHillCipher == EncryptHillCipher(PlainTexts, PageMatrices, MaxAgain)
encryptHillCipherRejected == EncryptHillCipherRejected(PlainTexts, PageMatrices)
encryptSDES == EncryptSDES(PageKeyFields, MaxAgain)
encryptSDESRejected == EncryptSDESRejected(PageKeyFields)
handleFileSelect == ImageLoaded(PageImages)
hideInImage == HideInImage(MaxAgain)
startDecryption == StartDecryption(MaxAgain)

Next ==
    \/ encryptHillCipher \/ encryptHillCipherRejected
    \/ encryptSDES \/ encryptSDESRejected
    \/ handleFileSelect
    \/ hideInImage \/ hideInImageRejected \/ hideMessageSettled
    \/ startDecryption \/ startDecryptionRejected \/ extractMessageSettled

Spec == PageInit /\ [][Next]_vars

\* C6: whenever startDecryption has produced its output, the key matrix, the
\* original length and the 10-bit key it used are the ones that produced the
\* stego image it extracted from, also when an earlier stage was run again
\* after the embed.
C6_DecryptsWithEmbeddedInputs ==
    decryptOutput.shown =>
        /\ decryptOutput.used.keyMatrix = decryptOutput.of.keyMatrix
        /\ decryptOutput.used.originalLength = decryptOutput.of.originalLength
        /\ decryptOutput.used.key = decryptOutput.of.key

-----------------------------------------------------------------------------
(* One run of the page: every stage is started at most once, over more inputs *)

MaxRunLen == 2

\* 'a', 'X', '1', ' '
RunChars == {97, 88, 49, 32}

RunTexts == UNION {[1..k -> RunChars] : k \in 0..MaxRunLen}

\* [[3,2],[5,7]] (determinant 11), [[30,-1],[27,4]] (147) and the
\* non-invertible [[2,4],[6,8]]
RunMatrices ==
    { << <<3, 2>>, <<5, 7>> >>, << <<30, -1>>, <<27, 4>> >>, << <<2, 4>>, <<6, 8>> >> }

\* images of 6, 11, 47, 48 and 91 pixels (18, 33, 141, 144 and 273 bits of
\* capacity) and a file that does not decode
RunImages == {Picture(n, White, {2}, Dusk) : n \in {6, 11, 47, 48, 91}} \cup {BrokenImage}

RunEncryptHillCipher == EncryptHillCipher(RunTexts, RunMatrices, 0)
RunEncryptHillCipherRejected == EncryptHillCipherRejected(RunTexts, RunMatrices)
RunEncryptSDES == EncryptSDES(PageKeyFields, 0)
RunEncryptSDESRejected == EncryptSDESRejected(PageKeyFields)
RunHandleFileSelect == ImageLoaded(RunImages)
RunHideInImage == HideInImage(0)
RunStartDecryption == StartDecryption(0)

RunNext ==
    \/ RunEncryptHillCipher \/ RunEncryptHillCipherRejected
    \/ RunEncryptSDES \/ RunEncryptSDESRejected
    \/ RunHandleFileSelect
    \/ RunHideInImage \/ hideInImageRejected \/ hideMessageSettled
    \/ RunStartDecryption \/ startDecryptionRejected \/ extractMessageSettled

SpecRun == PageInit /\ [][RunNext]_vars

\* every stage of the encryption has succeeded exactly once
FullRunOnce == history.hillRuns = 1 /\ history.sdesRuns = 1 /\ history.hideRuns = 1

\* C1: after a full encryption run in which encryptHillCipher, encryptSDES and
\* hideInImage each succeeded once, the text startDecryption produces is the
\* upper-cased letters of the plaintext and has the original letter count, so
\* it carries no pad letter.
C1_RoundTrip ==
    (decryptOutput.shown /\ FullRunOnce) =>
        /\ decryptOutput.text = LettersUpper(history.plainText)
        /\ Len(decryptOutput.text) = hillCipherResult.originalLength

\* a plaintext of one letter and one other character has been recovered
C1_Witness ==
    /\ decryptOutput.shown /\ FullRunOnce
    /\ Len(history.plainText) = 2
    /\ Len(decryptOutput.text) = 1

LettersOnly(text) == text # <<>> /\ \A i \in 1..Len(text) : IsLetter(text[i])

\* the bits the embed writes for a plaintext of n letters: the Hill stage pads
\* to an even count, S-DES gives 8 bits per letter, hideInImage joins them to a
\* string of '0' and '1' and hideMessage writes 8 bits per character of it,
\* then the 16 bits of the delimiter
PipelineBits(n) == 64 * (n + (n % 2)) + 16

\* the last embed was of a non-empty letters-only plaintext on a carrier that
\* decoded and has room for at least need(letter count) bits
EmbedWithRoom(need(_)) ==
    /\ history.lastHide.ok
    /\ history.lastHide.decoded
    /\ LettersOnly(history.lastHide.of.plainText)
    /\ history.lastHide.capacityBits >= need(Len(history.lastHide.of.plainText))

\* the decryption of a run of a non-empty letters-only plaintext gave its
\* upper-cased form
DecryptsToUpper ==
    (decryptOutput.shown /\ FullRunOnce /\ LettersOnly(history.plainText)) =>
        decryptOutput.text = [i \in 1..Len(history.plainText) |->
                                  ToUpper(history.plainText[i])]

SpecBits(n) == 8 * n + 16

StoredResults ==
    <<currentStep, hillCipherResult, sdesResult, steganographyResult, decryptOutput>>

\* C16: a stage that fails (non-invertible matrix, key that is not 10 bits,
\* payload exceeding the capacity, failed extraction or decryption) ends with
\* an error notification and stores nothing: in every step that ends with an
\* error showing, the stored results of all stages and the current step are
\* exactly what they were before the step.
C16_FailedStageStoresNothing ==
    [][notification'.type = "error" => UNCHANGED StoredResults]_vars

\* an embed has failed on the capacity after Hill and S-DES results were stored
C16_Witness ==
    /\ notification = Notify("error", "stego")
    /\ history.lastHide.ok
    /\ history.lastHide.err = "CapacityExceeded"
    /\ hillCipherResult.ok /\ sdesResult.ok
    /\ ~steganographyResult.ok

\* the stored stego result is the complete result of the embed p asked for:
\* the low bits of its stego image begin with the bits of the message and the
\* delimiter, and its counts are those of that message
CompleteResultOf(p, result) ==
    /\ result.ok
    /\ result.message = p.message
    /\ result.originalImage = p.imageData
    /\ result.used = 8 * Len(p.message) + 16
    /\ result.used <= result.capacity
    /\ SubSeq(RgbLowBits(result.stegoImage), 1, result.used)
            = textToBinary(p.message) \o DELIMITER

\* C18: the stored stego result changes, and decryption becomes enabled (step
\* 8), only in the step in which a suspended hideMessage completes
\* successfully, and then it holds the complete result of that call; the step
\* in which an embed fails on the decode or on the capacity leaves it as it was.
C18_StegoResultChangesOnlyOnCompletion ==
    [][/\ (steganographyResult' # steganographyResult \/ (currentStep' = 8 /\ currentStep # 8)) =>
            \E p \in pendingHide :
                /\ pendingHide' = pendingHide \ {p}
                /\ history'.lastHide.call = p.call
                /\ history'.lastHide.embedded
                /\ CompleteResultOf(p, steganographyResult')
                /\ currentStep' = 8
       /\ (history'.lastHide # history.lastHide /\ ~history'.lastHide.embedded) =>
            UNCHANGED <<steganographyResult, currentStep>>]_vars

\* an embed has failed after an earlier one had completed
C18_Witness ==
    /\ steganographyResult.ok
    /\ history.lastHide.ok
    /\ ~history.lastHide.embedded
    /\ history.hideCalls = 2

\* C27: a stored stego result comes with a stored S-DES result and a stored
\* S-DES result with a stored Hill result; an S-DES result is stored only when a
\* Hill result is, an embed starts only when an S-DES result is stored and an
\* image is uploaded, and a decryption starts only after an embed has completed.
C27_StagesInOrder ==
    /\ [](steganographyResult.ok => sdesResult.ok)
    /\ [](sdesResult.ok => hillCipherResult.ok)
    /\ [][/\ sdesResult' # sdesResult => (hillCipherResult.ok /\ history.hillRuns > 0)
          /\ pendingHide' \ pendingHide # {} =>
                (sdesResult.ok /\ history.sdesRuns > 0 /\ originalImageData # Null)
          /\ pendingExtract' \ pendingExtract # {} =>
                (steganographyResult.ok /\ history.hideRuns > 0)]_vars

\* a decryption has started after an S-DES encryption was run again on the
\* page that already stored a stego result
C27_Witness ==
    /\ steganographyResult.ok
    /\ history.sdesRuns = 2
    /\ history.decryptCalls = 1
    /\ pendingExtract # {}

\* C30: currentStep is in 1..8 and no operation of the page lowers it, and
\* when it is 8 the stored stego result was made from the Hill and S-DES
\* results that are stored.
C30_StepCounterNeverDecreases ==
    /\ [](currentStep \in 1..8)
    /\ [][currentStep' >= currentStep]_vars
    /\ [](currentStep = 8 =>
            /\ steganographyResult.ok
            /\ steganographyResult.message = Concat(sdesResult.output)
            /\ history.stegoOf.keyMatrix = hillCipherResult.keyMatrix
            /\ history.stegoOf.plainText = history.plainText)

\* currentStep is one of the values the page assigns
C30_StepCounterInRange == currentStep \in {1, 2, 5, 8}

\* the Hill encryption was run again on the page that had reached step 8
C30_HillRunAgainAfterStepEight ==
    /\ currentStep = 2
    /\ steganographyResult.ok
    /\ history.hillRuns = 2

-----------------------------------------------------------------------------
(* The page with hideInImage invoked again: between the two invocations another
   image may be uploaded and the S-DES encryption run again under another key;
   the two images decode in either order. *)

\* the stages that may be started again
MaxTwice == 2

TwiceTexts == {<<72, 105>>}

TwiceMatrices == { << <<3, 2>>, <<5, 7>> >> }

\* 1010000010 and 0111111101
TwiceKeyFields ==
    { [i \in 1..10 |-> <<ExampleKey[i]>>],
      [i \in 1..10 |-> IF i \in {1, 9} THEN <<Ch0>> ELSE <<Ch1>>] }

\* two images of 48 pixels
TwiceImages == { Picture(48, Dusk, {1, 7}, Teal), Picture(48, White, {2}, Dusk) }

encryptHillCipherOnce == EncryptHillCipher(TwiceTexts, TwiceMatrices, 0)
encryptSDESTwice == EncryptSDES(TwiceKeyFields, MaxTwice)
handleFileSelectTwice == ImageLoaded(TwiceImages)
hideInImageTwice == HideInImage(MaxTwice)

TwiceNext ==
    \/ encryptHillCipherOnce \/ encryptSDESTwice \/ handleFileSelectTwice
    \/ hideInImageTwice \/ hideMessageSettled

SpecTwice == PageInit /\ [][TwiceNext]_vars

\* C28: when hideInImage was invoked twice and both embeds have completed, the
\* stored stego result is the result of the embed that the second invocation
\* asked for.
C28_LastStartedEmbedIsStored ==
    (history.hideCalls = 2 /\ history.hideRuns = 2 /\ pendingHide = {}) =>
        CompleteResultOf(history.lastCall, steganographyResult)

\* both embeds have completed and the image of the first invocation was
\* decoded last: the stored result is the one made from the first image
C28_FirstStartedSettledLast ==
    /\ history.hideCalls = 2 /\ history.hideRuns = 2 /\ pendingHide = {}
    /\ history.lastHide.call = 1
    /\ steganographyResult.originalImage # history.lastCall.imageData

-----------------------------------------------------------------------------
(* The page of the second variant. Its handlers are async functions: each runs
   up to an await, and the rest runs when the awaited file read or image
   decode completes; the decryption steps 6 to 8 are started by 500 ms timers,
   which fire in the order they were set. *)

\* a carrier with a pixel for each of the 144 bits of two padded letters, one
\* of 16 pixels with room for the delimiter only, and a file that does not decode
SecondImages ==
    { Picture(144, White, {2}, Dusk), Picture(16, Dusk, {1, 7}, Teal), BrokenImage }

\* getSDESKey of the second variant: an empty field counts as '0'
getSDESKeyV2(fields) ==
    Concat([i \in 1..Len(fields) |-> IF fields[i] = <<>> THEN <<Ch0>> ELSE fields[i]])

SecondInit == SdesStart /\ TextStart /\ HillStart /\ StegoStart /\ SharedStart /\ SecondStart /\ PageStart

\* an operation may run once, and again while fewer than again operations have
MayRunV2(count, again) == count = 0 \/ second.again < again

RanV2(count) == IF count = 0 THEN second.again ELSE second.again + 1

\* encryptHillCipher returning at "if (!plainText || !validateMatrix2x2(matrix))"
EncryptHillCipherV2Returned(texts, matrices) ==
    /\ TRUE = \E text \in texts, matrix \in matrices :
                Trim(text) = <<>> \/ ~validateMatrix2x2(matrix, ALPHABET_SIZE)
    /\ UNCHANGED vars

\* encryptHillCipher of the second variant
EncryptHillCipherV2(texts, matrices, again) ==
    /\ MayRunV2(second.hillRuns, again)
    /\ \E text \in texts, matrix \in matrices :
        /\ Trim(text) # <<>>
        /\ validateMatrix2x2(matrix, ALPHABET_SIZE)
        /\ second' = [second EXCEPT !.hillResult = HillEncryptV2Fn(Trim(text), matrix),
                                    !.currentStep = 2,
                                    !.plainText = Trim(text),
                                    !.hillRuns = @ + 1,
                                    !.again = RanV2(second.hillRuns)]
    /\ UNCHANGED notSecond

\* encryptSDES of the second variant
EncryptSDESV2(keyFields, again) ==
    /\ second.hillResult # Null
    /\ MayRunV2(second.sdesRuns, again)
    /\ \E fields \in keyFields :
        \E result \in {SdesEncryptFn(second.hillResult.encryptedText, getSDESKeyV2(fields))} :
            /\ result.ok
            /\ second' = [second EXCEPT !.sdesResult = result,
                                        !.currentStep = 3,
                                        !.sdesRuns = @ + 1,
                                        !.again = RanV2(second.sdesRuns)]
    /\ UNCHANGED notSecond

\* handleFile: selectedImage = file
HandleFileV2(images) ==
    /\ \E file \in images :
        /\ file # second.selectedImage
        /\ second' = [second EXCEPT !.selectedImage = file]
    /\ UNCHANGED notSecond

\* hideInImage of the second variant up to the await of the FileReader
HideInImageV2(again) ==
    /\ second.sdesResult # Null
    /\ second.selectedImage # Null
    /\ MayRunV2(second.hideCalls, again)
    /\ second' = [second EXCEPT
            !.reading = @ \cup {[call |-> second.hideCalls + 1, file |-> second.selectedImage]},
            !.hideCalls = @ + 1,
            !.again = RanV2(second.hideCalls)]
    /\ UNCHANGED notSecond

\* reader.onload: hideInImage joins the blocks of the S-DES result stored now
\* and calls hideMessage, which waits for the image to decode
fileRead ==
    /\ \E r \in second.reading :
        second' = [second EXCEPT
            !.reading = @ \ {r},
            !.hiding = @ \cup {[call |-> r.call, imageData |-> r.file,
                                message |-> Concat(second.sdesResult.output)]}]
    /\ UNCHANGED notSecond

\* hideMessage settles: hideInImage stores the result and sets currentStep = 4,
\* or alerts and stores nothing
hideMessageSettledV2 ==
    /\ \E h \in second.hiding :
        \E result \in {HideMessageV2Fn(h.imageData, h.message)} :
            second' = [second EXCEPT
                !.hiding = @ \ {h},
                !.steganographyResult = IF result.ok THEN result ELSE @,
                !.currentStep = IF result.ok THEN 4 ELSE @]
    /\ UNCHANGED notSecond

\* a decryption run that has started its step 5
NewRun == [started |-> <<5>>, failed |-> 0, extracted |-> Null, final |-> Null]

\* startDecryption of the second variant: currentDecryptStep = 5 and
\* executeDecryptStep(5) up to its await of extractMessage
StartDecryptionV2(again) ==
    /\ second.steganographyResult # Null
    /\ MayRunV2(Len(second.runs), again)
    /\ second' = [second EXCEPT
            !.currentDecryptStep = 5,
            !.runs = Append(@, NewRun),
            !.extracting = @ \cup {[run |-> Len(second.runs) + 1, step |-> 5,
                                    stegoImageData |-> second.steganographyResult.stegoImageData]},
            !.again = RanV2(Len(second.runs))]
    /\ UNCHANGED notSecond

\* the oldest timer fires: executeDecryptStep(stepNumber) up to its await of
\* extractMessage on the stego image stored now
timerFired ==
    /\ second.timers # <<>>
    /\ \E timer \in {Head(second.timers)} :
        second' = [second EXCEPT
            !.timers = Tail(@),
            !.runs[timer.run].started = Append(@, timer.step),
            !.extracting = @ \cup {[run |-> timer.run, step |-> timer.step,
                                    stegoImageData |-> second.steganographyResult.stegoImageData]}]
    /\ UNCHANGED notSecond

\* the switch of executeDecryptStep after its await: what the step computes from
\* the decoded image and the S-DES and Hill results stored now
DecryptStepResult(stepNumber, decoded, sdesRes, hillRes) ==
    LET extracted == ExtractMessageV2Fn(decoded)
    IN  IF ~extracted.ok THEN extracted
        ELSE IF stepNumber = 5 THEN extracted
        ELSE LET decrypted == SdesDecryptFn(Chunks8(extracted.text), sdesRes.key)
             IN  IF ~decrypted.ok \/ stepNumber = 6 THEN decrypted
                 ELSE HillDecryptV2Fn(decrypted.text, hillRes.keyMatrix)

\* executeDecryptStep with the advance of currentDecryptStep outside the try
executeDecryptStepResumed_AlwaysAdvances ==
    /\ \E x \in second.extracting : \E decoded \in {x.stegoImageData, BrokenImage} :
        \E result \in {DecryptStepResult(x.step, decoded, second.sdesResult,
                                         second.hillResult)} :
            second' = [second EXCEPT
                !.extracting = @ \ {x},
                !.shown[x.step] = result,
                !.timers = IF result.ok /\ x.step < 8
                           THEN Append(@, [run |-> x.run, step |-> x.step + 1]) ELSE @,
                !.currentDecryptStep = x.step + 1,
                !.currentStep = IF result.ok /\ x.step = 8 THEN 8 ELSE @,
                !.runs[x.run].failed = IF result.ok THEN @ ELSE x.step,
                !.runs[x.run].extracted =
                    IF result.ok /\ x.step = 5
                    THEN [text |-> result.text, key |-> second.sdesResult.key,
                          keyMatrix |-> second.hillResult.keyMatrix]
                    ELSE @,
                !.runs[x.run].final = IF x.step = 8 THEN result ELSE @]
    /\ UNCHANGED notSecond

\* executeDecryptStep from its await on: the image has decoded, or has not
\* (img.onerror). Steps 5 to 7 show their result and set the timer of the next
\* step, step 8 shows the final plaintext and sets currentStep = 8, and
\* currentDecryptStep becomes stepNumber + 1; a step that throws shows the
\* error and does none of these
executeDecryptStepResumed ==
    /\ \E x \in second.extracting : \E decoded \in {x.stegoImageData, BrokenImage} :
        \E result \in {DecryptStepResult(x.step, decoded, second.sdesResult,
                                         second.hillResult)} :
            second' = [second EXCEPT
                !.extracting = @ \ {x},
                !.shown[x.step] = result,
                !.timers = IF result.ok /\ x.step < 8
                           THEN Append(@, [run |-> x.run, step |-> x.step + 1]) ELSE @,
                !.currentDecryptStep = IF result.ok THEN x.step + 1 ELSE @,
                !.currentStep = IF result.ok /\ x.step = 8 THEN 8 ELSE @,
                !.runs[x.run].failed = IF result.ok THEN @ ELSE x.step,
                !.runs[x.run].extracted =
                    IF result.ok /\ x.step = 5
                    THEN [text |-> result.text, key |-> second.sdesResult.key,
                          keyMatrix |-> second.hillResult.keyMatrix]
                    ELSE @,
                !.runs[x.run].final = IF x.step = 8 THEN result ELSE @]
    /\ UNCHANGED notSecond

(* One run of the second variant's page: every operation at most once *)

encryptHillCipherV2 == EncryptHillCipherV2(RunTexts, RunMatrices, 0)
encryptHillCipherV2Returned == EncryptHillCipherV2Returned(RunTexts, RunMatrices)
encryptSDESV2 == EncryptSDESV2(PageKeyFields, 0)
handleFileV2 == HandleFileV2(SecondImages)
hideInImageV2 == HideInImageV2(0)
startDecryptionV2 == StartDecryptionV2(0)

SecondNext ==
    \/ encryptHillCipherV2 \/ encryptHillCipherV2Returned
    \/ encryptSDESV2 \/ handleFileV2
    \/ hideInImageV2 \/ fileRead \/ hideMessageSettledV2
    \/ startDecryptionV2 \/ timerFired \/ executeDecryptStepResumed

SpecSecond == SecondInit /\ [][SecondNext]_vars

\* C20: in the second variant, after a full encryption run, the final
\* plaintext that decryption step 8 shows is the upper-cased letters of the
\* plaintext, cut to the original letter count, for odd and even letter counts.
C20_FinalPlaintextV2 ==
    (second.shown[8] # Null /\ second.shown[8].ok) =>
        second.shown[8].text = LettersUpper(second.plainText)

\* the steps 5, 6, ... a run has started are the first steps of 5, 6, 7, 8
InOrder(run) ==
    /\ Len(run.started) \in 1..4
    /\ \A i \in 1..Len(run.started) : run.started[i] = 4 + i

\* nothing of the run r is waiting: no timer and no extraction
Stopped(page, r) ==
    /\ \A i \in 1..Len(page.timers) : page.timers[i].run # r
    /\ \A x \in page.extracting : x.run # r

\* C25: the decryption steps of a run start in the order 5, 6, 7, 8; once step
\* n of a run has failed the run has started no later step and starts none (no
\* timer is set and none is left), step n is not started again, and the step
\* that fails leaves currentDecryptStep as it was, which is at most n while
\* there is no other run.
C25_FailedStepEndsTheRun ==
    [][\A r \in 1..Len(second'.runs) :
        /\ InOrder(second'.runs[r])
        /\ second'.runs[r].failed # 0 =>
            /\ second'.runs[r].started[Len(second'.runs[r].started)] = second'.runs[r].failed
            /\ Stopped(second', r)
            /\ Len(second'.runs) = 1 => second'.currentDecryptStep <= second'.runs[r].failed
        /\ (r <= Len(second.runs) /\ second.runs[r].failed = 0 /\ second'.runs[r].failed # 0) =>
            second'.currentDecryptStep = second.currentDecryptStep
        /\ (r <= Len(second.runs) /\ second.runs[r].failed # 0) =>
            second'.runs[r] = second.runs[r]]_vars

\* steps 5 and 6 of a run succeeded and its step 7 failed: nothing of the run
\* is waiting and currentDecryptStep is still 7
C25_Witness ==
    /\ Len(second.runs) = 1
    /\ second.runs[1].started = <<5, 6, 7>>
    /\ second.runs[1].failed = 7
    /\ second.shown[6].ok /\ ~second.shown[7].ok
    /\ second.currentDecryptStep = 7
    /\ Stopped(second, 1)

-----------------------------------------------------------------------------
(* The page of the second variant with operations run again while earlier ones
   are waiting *)

MaxSecondAgain == 1

\* "a" and "b"
AgainTexts == {<<97>>, <<98>>}

\* [[3,2],[5,7]] and [[30,-1],[27,4]]
AgainMatrices == { << <<3, 2>>, <<5, 7>> >>, << <<30, -1>>, <<27, 4>> >> }

\* 1010000010 and 0111111101
AgainKeyFields ==
    { [i \in 1..10 |-> <<ExampleKey[i]>>],
      [i \in 1..10 |-> IF i \in {1, 9} THEN <<Ch0>> ELSE <<Ch1>>] }

AgainImages == { Picture(144, White, {2}, Dusk) }

encryptHillCipherV2Again == EncryptHillCipherV2(AgainTexts, AgainMatrices, MaxSecondAgain)
encryptSDESV2Again == EncryptSDESV2(AgainKeyFields, MaxSecondAgain)
handleFileV2Again == HandleFileV2(AgainImages)
hideInImageV2Again == HideInImageV2(MaxSecondAgain)
startDecryptionV2Again == StartDecryptionV2(MaxSecondAgain)

SecondAgainNext ==
    \/ encryptHillCipherV2Again \/ encryptSDESV2Again \/ handleFileV2Again
    \/ hideInImageV2Again \/ fileRead \/ hideMessageSettledV2
    \/ startDecryptionV2Again \/ timerFired \/ executeDecryptStepResumed

SpecSecondAgain == SecondInit /\ [][SecondAgainNext]_vars

\* what steps 6 to 8 make of the message that step 5 of the run extracted,
\* under the key and the matrix stored when step 5 ran
DecryptionOf(extracted) ==
    LET decrypted == SdesDecryptFn(Chunks8(extracted.text), extracted.key)
    IN  IF ~decrypted.ok THEN decrypted
        ELSE HillDecryptV2Fn(decrypted.text, extracted.keyMatrix)

\* C29: the final plaintext that step 8 of a startDecryption run shows is the
\* decryption of the message that step 5 of that run extracted, under the key
\* and the key matrix stored at step 5, whatever ran between the steps.
C29_StepEightDecryptsStepFive ==
    \A r \in 1..Len(second.runs) :
        (second.runs[r].final # Null /\ second.runs[r].final.ok) =>
            second.runs[r].final = DecryptionOf(second.runs[r].extracted)

\* a run has shown its final plaintext after the Hill encryption was run again
\* under another matrix between its steps 5 and 8
C29_MatrixChangedBetweenSteps ==
    \E r \in 1..Len(second.runs) :
        /\ second.runs[r].final # Null /\ second.runs[r].final.ok
        /\ second.hillRuns = 2
        /\ second.runs[r].extracted.keyMatrix # second.hillResult.keyMatrix

=============================================================================
